---- MODULE Spec2Model ----
(***************************************************************************)
(* A model of datajoint_plus: the hash engine (hash.py), the row           *)
(* preparation pipeline and the master/part insert orchestration           *)
(* (base.py), part resolution (base.py), the table log (table.py), goto    *)
(* (utils.py), the schema (schema.py), the nested parts (motif_base.py),   *)
(* the definition parser (heading.py) and the header and the validations   *)
(* of a class (base.py, validation.py).                                    *)
(*                                                                         *)
(* The module holds several specifications over one set of variables; a    *)
(* specification leaves the variables of the other components at their     *)
(* idle values.                                                            *)
(*   SpecPermute: generate_hash on a batch whose rows and columns move     *)
(*   SpecHash   : add_hash_to_rows on a batch whose cells change           *)
(*   SpecPrepare: inserts whose rows carry the hash or a constant column   *)
(*   SpecInsert : BaseMaster.insert / BasePart.insert against the engine   *)
(*   SpecParts  : restrict_parts and the resolvers built on it             *)
(*   SpecLog    : TableLog.__call__ (add / delete)                         *)
(*   SpecGoto   : goto over a module and the lookup in the table log       *)
(*   SpecSchema : the construction of a Schema against the table log       *)
(*   SpecDelete : delete and delete_quick of a nested part                 *)
(*   SpecParse  : parse_definition, reform_definition and _modify_header   *)
(*   SpecHeader : the header a class definition gets and its decoding      *)
(*   SpecMisuse : what a misused class or part resolution raises           *)
(*   SpecTwoTables : add_hash_to_rows on the same batch in two tables      *)
(*   SpecHashLen: _hash_name_validation of a master and of a part          *)
(*   SpecNotInParts : hashes_not_in_parts                                  *)
(*   SpecEncode : _modify_header, once and again on what it wrote          *)
(*   SpecSafedict : update and item assignment on a safedict (utils.py)    *)
(***************************************************************************)
EXTENDS Integers, Sequences, FiniteSets, TLC

VARIABLES
    cls,      \* hash component: the table class whose rows are hashed
    rows,     \* hash component: the current batch (a data frame)
    op,       \* hash component: the last operation applied to the batch
    dhash,    \* hash component: generate_hash of the batch
    out,      \* hash component: the result of add_hash_to_rows on the batch
    tables,   \* insert component: table name -> table class (master and its parts)
    db,       \* insert component: table name -> the set of rows the engine holds
    conn,     \* insert component: the connection (in_transaction)
    ret,      \* insert component: the last call, its arguments in short and its outcome
    res,      \* part queries: the last restrict_* call and what it returned
    log,      \* table log: the rows of ~tables
    logcall,  \* table log: the last call of the log and its arguments
    directory,\* goto: the user classes of the searched module, by table id
    gotocall, \* goto: the arguments of the call
    found,    \* goto: what the call returned
    live,     \* schema: the names of the tables the database holds
    schema,   \* schema: the last construction of a Schema and how it went
    store,    \* nested delete: the rows of a master and of its two nested parts
    delcall,  \* nested delete: the last delete call and how it went
    klass,    \* declaration: the class being defined (its definition and attributes)
    declared, \* declaration: the last step of its definition and what it produced
    inputs,   \* safedict: the dict a maker merges into (overwrite and items)
    dictcall  \* safedict: the last call on the dict and how it went

hashVars == <<cls, rows, op, dhash, out>>

insertVars == <<tables, db, conn, ret>>

serviceVars == <<res, log, logcall>>

gotoVars == <<directory, gotocall, found>>

\* the variables of the components that follow the table log
schemaVars == <<live, schema>>

deleteVars == <<store, delcall>>

\* the variables of the components that follow the schema
declVars == <<klass, declared>>

\* the variables of the safedict
dictVars == <<inputs, dictcall>>

laterVars == <<deleteVars, declVars, dictVars>>

restVars == <<gotoVars, schemaVars, laterVars>>

vars == <<hashVars, insertVars, serviceVars, restVars>>

(***************************************************************************)
(* Bounds                                                                  *)
(***************************************************************************)
MaxRows == 2     \* rows in a batch
MaxVal == 1      \* integer cell values are 0..MaxVal
MaxKey == 0      \* the rows of the insert specifications have a in 0..MaxKey
IdLen == 2       \* table ids are strings of IdLen digits
TextLen == 4     \* a parsed definition has at most TextLen characters

(***************************************************************************)
(* Names.  Attribute names are compared as strings by DataFrame.sort_index *)
(* (hash.py:27); NameOrder lists the names the model uses in that order.   *)
(***************************************************************************)
NameOrder == <<"a", "b", "full_table_name", "h", "table_id">>

NameRank(c) == CHOOSE i \in 1..Len(NameOrder) : NameOrder[i] = c

TableNames == <<"db.master", "db.master__p1", "db.master__p2">>

TableNameRank(n) == CHOOSE i \in 1..Len(TableNames) : TableNames[i] = n

Range(s) == {s[i] : i \in 1..Len(s)}

(***************************************************************************)
(* Data frames: an ordered list of column names and an ordered list of     *)
(* rows, each row a mapping column name -> value.                          *)
(***************************************************************************)
DataFrame(columns, data) == [columns |-> columns, data |-> data]

\* df[k] = v for a list of values, one per row (a scalar is broadcast by the caller)
SetColumn(df, k, vals) ==
    DataFrame(
        IF k \in Range(df.columns) THEN df.columns ELSE Append(df.columns, k),
        [i \in 1..Len(df.data) |->
            [c \in (DOMAIN df.data[i]) \cup {k} |->
                IF c = k THEN vals[i] ELSE df.data[i][c]]])

\* df[k] = v for a scalar v
SetConstantColumn(df, k, v) ==
    SetColumn(df, k, [i \in 1..Len(df.data) |-> v])

\* df[[*attrs]] : the columns attrs, in that order
SelectColumns(df, attrs) ==
    DataFrame(attrs,
        [i \in 1..Len(df.data) |-> [c \in Range(attrs) |-> df.data[i][c]]])

(***************************************************************************)
(* hash.py: generate_hash                                                  *)
(***************************************************************************)
\* the md5 hex digest of a text, taken to be collision free: the digest
\* stands for the text it was computed from, at its full length of 32
hexdigest(encoded) == [md5 |-> encoded, len |-> 32]

\* digest[:n]
Truncate(digest, n) ==
    [md5 |-> digest.md5, len |-> IF n < digest.len THEN n ELSE digest.len]

\* the sort key of a cell: integers by value, strings (table names and the
\* digests of table names) in a fixed total order
CellKey(c, v) ==
    CASE c = "table_id" -> TableNameRank(v.md5[1][1][2])
      [] c = "full_table_name" -> TableNameRank(v)
      [] OTHER -> v

\* df.sort_index(axis=1)
sort_index(df) ==
    DataFrame(SortSeq(df.columns, LAMBDA x, y : NameRank(x) < NameRank(y)),
              df.data)

RowLess(columns, r1, r2) ==
    \E i \in 1..Len(columns) :
        /\ CellKey(columns[i], r1[columns[i]]) < CellKey(columns[i], r2[columns[i]])
        /\ \A j \in 1..(i - 1) :
              CellKey(columns[j], r1[columns[j]]) = CellKey(columns[j], r2[columns[j]])

\* a sort_values that leaves the rows in their input order
sort_values_unsorted(df) == df

\* df.sort_values(by=df.columns.tolist())
sort_values(df) ==
    DataFrame(df.columns,
              SortSeq(df.data, LAMBDA r1, r2 : RowLess(df.columns, r1, r2)))

\* df.to_dict(orient='records') followed by simplejson.dumps: each row as the
\* list of its (column, value) pairs in column order
to_dict_records(df) ==
    [i \in 1..Len(df.data) |->
        [j \in 1..Len(df.columns) |-> <<df.columns[j], df.data[i][df.columns[j]]>>]]

RECURSIVE AddConstantColumns(_, _)
AddConstantColumns(df, consts) ==
    IF consts = <<>> THEN df
    ELSE AddConstantColumns(SetConstantColumn(df, consts[1][1], consts[1][2]),
                            Tail(consts))

\* add_constant_columns is a list of (name, value) pairs; None and {} are
\* both the empty list (hash.py:22-25 does nothing for either)
generate_hash(df, add_constant_columns) ==
    LET df1 == AddConstantColumns(df, add_constant_columns)
        df2 == sort_index(df1)
        df3 == sort_values(df2)
    IN  hexdigest(to_dict_records(df3))

generate_table_id(full_table_name) ==
    generate_hash(DataFrame(<<"full_table_name">>,
                            <<[full_table_name |-> full_table_name]>>), <<>>)

\* an overwrite check that lets every merge go ahead
_is_overwrite_validated_always(attr, group, overwrite_rows) == TRUE

(***************************************************************************)
(* validation.py: _is_overwrite_validated.  TRUE when the merge may go     *)
(* ahead, FALSE when it raises OverwriteError.                             *)
(***************************************************************************)
_is_overwrite_validated(attr, group, overwrite_rows) ==
    IF ~overwrite_rows
    THEN IF attr \in Range(group.columns) THEN FALSE ELSE TRUE
    ELSE TRUE

(***************************************************************************)
(* base.py: Base.add_hash_to_rows.  A table class is a record              *)
(*   kind, full_table_name, enable_hashing, hash_name, hashed_attrs,       *)
(*   hash_group, hash_table_name, master_hash_part_table_names, hash_len   *)
(* hashed_attrs = <<>> stands for hashed_attrs = None.  A result is        *)
(* [err, rows]; err = "" when the call returned.                           *)
(***************************************************************************)
EmptyFrame == DataFrame(<<>>, <<>>)

Raise(e) == [err |-> e, rows |-> EmptyFrame]

Return(df) == [err |-> "", rows |-> df]

\* Table.table_id (table.py:98-100)
table_id_of(c) == generate_table_id(c.full_table_name)

\* a constant column only for the tables that set hash_table_name themselves
TableIdConstant_own(c) ==
    IF c.hash_table_name THEN << <<"table_id", table_id_of(c)>> >> ELSE <<>>

\* base.py:365-370
TableIdConstant(c) ==
    LET hash_table_name ==
            IF c.hash_table_name \/ (c.kind = "part" /\ c.master_hash_part_table_names)
            THEN TRUE ELSE FALSE
    IN  IF hash_table_name THEN << <<"table_id", table_id_of(c)>> >> ELSE <<>>

\* a rows_to_hash that keeps every column of the batch
rows_to_hash_all(c, df) == df

\* base.py:378
rows_to_hash(c, df) == SelectColumns(df, c.hashed_attrs)

\* an add_hash_to_rows that hashes row by row whatever hash_group is
add_hash_to_rows_per_row(c, df, overwrite_rows) ==
    IF c.hashed_attrs = <<>> THEN Raise("AssertionError")
    ELSE IF \E a \in Range(c.hashed_attrs) : a \notin Range(df.columns)
    THEN Raise("AssertionError")
    ELSE IF ~_is_overwrite_validated(c.hash_name, df, overwrite_rows)
    THEN Raise("OverwriteError")
    ELSE Return(SetColumn(df, c.hash_name,
                    [i \in 1..Len(df.data) |->
                        Truncate(generate_hash(DataFrame(rows_to_hash(c, df).columns,
                                                         <<rows_to_hash(c, df).data[i]>>),
                                               TableIdConstant(c)),
                                 c.hash_len)]))

\* base.py:353-386
add_hash_to_rows(c, df, overwrite_rows) ==
    IF c.hashed_attrs = <<>> THEN Raise("AssertionError")
    ELSE IF \E a \in Range(c.hashed_attrs) : a \notin Range(df.columns)
    THEN Raise("AssertionError")
    ELSE IF ~_is_overwrite_validated(c.hash_name, df, overwrite_rows)
    THEN Raise("OverwriteError")
    ELSE LET table_id == TableIdConstant(c)
             rth == rows_to_hash(c, df)
         IN  IF c.hash_group
             THEN Return(SetConstantColumn(df, c.hash_name,
                         Truncate(generate_hash(rth, table_id), c.hash_len)))
             ELSE Return(SetColumn(df, c.hash_name,
                         [i \in 1..Len(rth.data) |->
                             Truncate(generate_hash(DataFrame(rth.columns, <<rth.data[i]>>),
                                                    table_id),
                                      c.hash_len)]))

(***************************************************************************)
(* SpecHash: a table class and a batch of rows; the batch is permuted and  *)
(* edited cell by cell, and hashed again after every step.                 *)
(***************************************************************************)
TableIds == {generate_table_id(TableNames[i]) : i \in 1..2}

\* the column sets of the batches
KeySets == {{"a", "b"}, {"table_id"}, {"a", "table_id"}}

\* the rows over a column set: table_id cells hold table ids, the others integers
RowsOver(K) ==
    {[c \in K |-> IF c = "table_id" THEN t ELSE g[c]] :
        t \in TableIds, g \in [K -> 0..MaxVal]}

SortedColumns(K) ==
    SortSeq(CHOOSE s \in [1..Cardinality(K) -> K] : Range(s) = K,
            LAMBDA x, y : NameRank(x) < NameRank(y))

Batches ==
    UNION {{DataFrame(SortedColumns(K), d) : d \in [1..n -> RowsOver(K)]} :
              K \in KeySets, n \in 1..MaxRows}

HashedAttrsChoices == {<<"a">>, <<"a", "b">>, <<"table_id">>}

HashClasses ==
    {[kind |-> k, full_table_name |-> n, enable_hashing |-> TRUE,
      hash_name |-> "h", hashed_attrs |-> ha, hash_group |-> g,
      hash_table_name |-> t, master_hash_part_table_names |-> m, hash_len |-> 32] :
        k \in {"master", "part"}, n \in Range(TableNames), ha \in HashedAttrsChoices,
        g \in BOOLEAN, t \in BOOLEAN, m \in BOOLEAN}

\* generate_hash of a batch, without and with the table's constant column
Digests(c, df) ==
    [plain |-> generate_hash(df, <<>>),
     with_constants |-> generate_hash(df, << <<"table_id", table_id_of(c)>> >>)]

Swap(s, i) ==
    [k \in 1..Len(s) |-> IF k = i THEN s[i + 1] ELSE IF k = i + 1 THEN s[i] ELSE s[k]]

IdleOut == Return(EmptyFrame)

IdleDigests == [plain |-> hexdigest(<<>>), with_constants |-> hexdigest(<<>>)]

LastOp(name, col) == [name |-> name, col |-> col]

\* no part query made, no table log declared
ServiceIdle ==
    /\ res = <<>>
    /\ log = {}
    /\ logcall = <<>>

GotoIdle ==
    /\ directory = <<>>
    /\ gotocall = <<>>
    /\ found = <<>>

\* no schema is being constructed
SchemaIdle ==
    /\ live = {}
    /\ schema = <<>>

\* no delete is under way
DeleteIdle ==
    /\ store = <<>>
    /\ delcall = <<>>

\* no class is being defined
DeclIdle ==
    /\ klass = <<>>
    /\ declared = <<>>

\* no dict is being merged into
DictIdle ==
    /\ inputs = <<>>
    /\ dictcall = <<>>

\* the components that follow the schema at rest
LaterIdle == DeleteIdle /\ DeclIdle /\ DictIdle

\* the components that follow the table log at rest
RestIdle == GotoIdle /\ SchemaIdle /\ LaterIdle

\* the insert component at rest
InsertIdle ==
    /\ tables = <<>>
    /\ db = <<>>
    /\ conn = [in_transaction |-> FALSE]
    /\ ret = <<>>

(***************************************************************************)
(* SpecPermute: generate_hash on a batch whose rows and columns are        *)
(* permuted; the digest is taken without and with a constant column.       *)
(***************************************************************************)
PermuteClass ==
    CHOOSE c \in HashClasses :
        /\ c.full_table_name = TableNames[1]
        /\ c.kind = "master" /\ c.hash_table_name /\ ~c.master_hash_part_table_names
        /\ c.hashed_attrs = <<"a">> /\ ~c.hash_group

PermuteInit ==
    /\ cls = PermuteClass
    /\ rows \in Batches
    /\ op = LastOp("init", "")
    /\ dhash = Digests(cls, rows)
    /\ out = IdleOut
    /\ InsertIdle
    /\ ServiceIdle
    /\ RestIdle

PermuteRows ==
    \E i \in 1..(Len(rows.data) - 1) :
        /\ rows' = DataFrame(rows.columns, Swap(rows.data, i))
        /\ op' = LastOp("permute_rows", "")
        /\ dhash' = Digests(cls, rows')
        /\ UNCHANGED <<cls, out, insertVars, serviceVars, restVars>>

PermuteColumns ==
    \E j \in 1..(Len(rows.columns) - 1) :
        /\ rows' = DataFrame(Swap(rows.columns, j), rows.data)
        /\ op' = LastOp("permute_columns", "")
        /\ dhash' = Digests(cls, rows')
        /\ UNCHANGED <<cls, out, insertVars, serviceVars, restVars>>

PermuteNext == PermuteRows \/ PermuteColumns

SpecPermute == PermuteInit /\ [][PermuteNext]_vars

(***************************************************************************)
(* SpecHash: add_hash_to_rows on a batch that is edited cell by cell and   *)
(* hashed again after every edit.  The batches belong to the first table   *)
(* and carry every hashed attribute (base.py:374-375 rejects the others).  *)
(***************************************************************************)
HashInit ==
    /\ cls \in {c \in HashClasses :
                  /\ c.kind = "part" \/ ~c.master_hash_part_table_names
                  /\ c.full_table_name = TableNames[1]}
    /\ rows \in {b \in Batches : Range(cls.hashed_attrs) \subseteq Range(b.columns)}
    /\ op = LastOp("init", "")
    /\ dhash = IdleDigests
    /\ out = add_hash_to_rows(cls, rows, FALSE)
    /\ InsertIdle
    /\ ServiceIdle
    /\ RestIdle

SetValue ==
    \E i \in 1..Len(rows.data), c \in Range(rows.columns) :
        \E r \in RowsOver(Range(rows.columns)) :
            /\ r[c] # rows.data[i][c]
            /\ \A d \in Range(rows.columns) \ {c} : r[d] = rows.data[i][d]
            /\ rows' = DataFrame(rows.columns, [rows.data EXCEPT ![i] = r])
            /\ op' = LastOp("set_value", c)
            /\ out' = add_hash_to_rows(cls, rows', FALSE)
            /\ UNCHANGED <<cls, dhash, insertVars, serviceVars, restVars>>

HashNext == SetValue

SpecHash == HashInit /\ [][HashNext]_vars

(***************************************************************************)
(* The insert component: a master table and its two part tables.           *)
(* Every table has primary key h; a part row references the master row     *)
(* with the same h.                                                        *)
(***************************************************************************)
Master == "Master"

PartNames == <<"P1", "P2">>

Heading(t) ==
    CASE t = "Master" -> <<"h", "a">>
      [] t = "P1" -> <<"h", "a">>
      [] t = "P2" -> <<"h">>

FullTableName(t) ==
    CASE t = "Master" -> TableNames[1]
      [] t = "P1" -> TableNames[2]
      [] t = "P2" -> TableNames[3]

\* the class of table t, hashing attribute a into h when enable_hashing; a
\* class without hashing keeps the defaults hash_name = None ("None") and
\* hashed_attrs = None (base.py:33-35).  The master sets
\* hash_part_table_names = False.
InsertClass(t, enable_hashing) ==
    [kind |-> IF t = Master THEN "master" ELSE "part",
     full_table_name |-> FullTableName(t),
     enable_hashing |-> enable_hashing,
     hash_name |-> IF enable_hashing THEN "h" ELSE "None",
     hashed_attrs |-> IF enable_hashing THEN <<"a">> ELSE <<>>,
     hash_group |-> FALSE,
     hash_table_name |-> FALSE,
     master_hash_part_table_names |-> FALSE,
     hash_len |-> 32]

\* base.py:546-558 (master) and base.py:960-973 (part), followed by
\* Base._insert_validation (base.py:122-134); "" when validation passes
_insert_validation(t, c) ==
    IF /\ c.hash_name # "None"
       /\ IF c.kind = "master"
          THEN c.hash_name \notin Range(Heading(t))
          ELSE ~(c.hash_name \in Range(Heading(t)) \/ c.hash_name \in Range(Heading(Master)))
    THEN "ValidationError"
    ELSE IF c.hash_name # "None" /\ c.hash_name \in Range(c.hashed_attrs)
    THEN "AttributeError"
    ELSE IF "index" \in Range(Heading(t)) THEN "AttributeError"
    ELSE ""

\* base.py:144-162; constant_attrs is the list of the dict's items
RECURSIVE add_constant_attrs_to_rows(_, _, _)
add_constant_attrs_to_rows(df, constant_attrs, overwrite_rows) ==
    IF constant_attrs = <<>> THEN Return(df)
    ELSE IF _is_overwrite_validated(constant_attrs[1][1], df, overwrite_rows)
    THEN add_constant_attrs_to_rows(
             SetConstantColumn(df, constant_attrs[1][1], constant_attrs[1][2]),
             Tail(constant_attrs), overwrite_rows)
    ELSE Raise("OverwriteError")

\* base.py:388-409
_prepare_insert(t, c, df, constant_attrs, overwrite_rows, skip_hashing) ==
    IF _insert_validation(t, c) # "" THEN Raise(_insert_validation(t, c))
    ELSE LET merged == IF constant_attrs # <<>>
                       THEN add_constant_attrs_to_rows(df, constant_attrs, overwrite_rows)
                       ELSE Return(df)
         IN  IF merged.err # "" THEN merged
             ELSE IF c.enable_hashing /\ ~skip_hashing
             THEN add_hash_to_rows(c, merged.rows, overwrite_rows)
             ELSE merged

(***************************************************************************)
(* The engine.  A call runs on a thread state                              *)
(*   [db, in_transaction, calls, err]                                      *)
(* calls lists the engine calls made so far; once err is set the           *)
(* exception propagates and later statements do nothing.                   *)
(***************************************************************************)
Thread(d, in_transaction) ==
    [db |-> d, in_transaction |-> in_transaction, calls |-> <<>>, err |-> ""]

InsertCalls(s) == Cardinality({i \in 1..Len(s.calls) : s.calls[i][1] = "insert"})

\* Table.insert (table.py:102-275) on table t with a data frame; fault = n
\* makes the n-th insert of the call fail inside the engine
Table_insert(s, t, df, skip_duplicates, ignore_extra_fields, fault) ==
    IF s.err # "" THEN s
    ELSE
    LET s1 == [s EXCEPT !.calls = Append(@, <<"insert", t>>)]
        columns == Range(df.columns)
        heading == Range(Heading(t))
        new == {[c \in heading |-> df.data[i][c]] : i \in 1..Len(df.data)}
        fresh == {r \in new : \A q \in s.db[t] : q.h # r.h}
    IN  IF ~ignore_extra_fields /\ ~(columns \subseteq heading)
        THEN [s1 EXCEPT !.err = "KeyError"]
        ELSE IF fault = InsertCalls(s1)
        THEN [s1 EXCEPT !.err = "LostConnectionError"]
        ELSE IF ~(heading \subseteq columns)
        THEN [s1 EXCEPT !.err = "MissingAttributeError"]
        ELSE IF ~skip_duplicates /\ fresh # new
        THEN [s1 EXCEPT !.err = "DuplicateError"]
        ELSE IF t # Master /\ \E r \in fresh : \A q \in s.db[Master] : q.h # r.h
        THEN [s1 EXCEPT !.err = "IntegrityError"]
        ELSE [s1 EXCEPT !.db[t] = @ \cup fresh]

\* entering "with dj.conn().transaction" (base.py:875, 998)
start_transaction(s) ==
    IF s.err # "" THEN s
    ELSE [s EXCEPT !.in_transaction = TRUE,
                   !.calls = Append(@, <<"start_transaction", "">>)]

\* a with block that ends the transaction without undoing its writes
end_transaction_keep(s0, s) ==
    [s EXCEPT !.in_transaction = FALSE,
              !.calls = Append(@, <<IF s.err = "" THEN "commit_transaction"
                                    ELSE "cancel_transaction", "">>)]

\* leaving the with block opened on thread state s0: commit when the body
\* returned, cancel (restoring the rows of s0) and re-raise when it raised
end_transaction(s0, s) ==
    IF s.err = ""
    THEN [s EXCEPT !.in_transaction = FALSE,
                   !.calls = Append(@, <<"commit_transaction", "">>)]
    ELSE [s EXCEPT !.in_transaction = FALSE,
                   !.db = s0.db,
                   !.calls = Append(@, <<"cancel_transaction", "">>)]

(***************************************************************************)
(* base.py: BaseMaster.insert and BasePart.insert.  cl maps a table name   *)
(* to its class.  A request is a record of the keyword arguments           *)
(*   rows, constant_attrs, overwrite_rows, skip_hashing, skip_duplicates,  *)
(*   ignore_extra_fields, and insert_to_parts (a list, or "None" by        *)
(*   given = FALSE) for the master, insert_to_master for a part            *)
(***************************************************************************)
NoParts == [given |-> FALSE, parts |-> <<>>]

Request(df, constant_attrs, overwrite_rows, skip_hashing, skip_duplicates, ignore_extra_fields, insert_to_parts, insert_to_master) ==
    [rows |-> df, constant_attrs |-> constant_attrs, overwrite_rows |-> overwrite_rows,
     skip_hashing |-> skip_hashing, skip_duplicates |-> skip_duplicates,
     ignore_extra_fields |-> ignore_extra_fields,
     insert_to_parts |-> insert_to_parts, insert_to_master |-> insert_to_master]

\* base.py:866-871 then 908-913: BaseMaster.insert without insert_to_parts
BaseMaster_insert_only(s, cl, req, fault) ==
    IF s.err # "" THEN s
    ELSE LET prepared == _prepare_insert(Master, cl[Master], req.rows, req.constant_attrs,
                                         req.overwrite_rows, req.skip_hashing)
         IN  IF prepared.err # "" THEN [s EXCEPT !.err = prepared.err]
             ELSE Table_insert(s, Master, prepared.rows, req.skip_duplicates,
                               req.ignore_extra_fields, fault)

\* base.py:999 and 1007: cls.master.insert(rows=rows, ignore_extra_fields=True,
\* skip_duplicates=True)
insert_to_master_kws(df) ==
    Request(df, <<>>, FALSE, FALSE, TRUE, TRUE, NoParts, FALSE)

\* base.py:975-1020
BasePart_insert(s, cl, t, req, fault) ==
    IF s.err # "" THEN s
    ELSE
    LET prepared == _prepare_insert(t, cl[t], req.rows, req.constant_attrs,
                                    req.overwrite_rows, req.skip_hashing)
        body(s0) ==
            Table_insert(BaseMaster_insert_only(s0, cl, insert_to_master_kws(prepared.rows),
                                                fault),
                         t, prepared.rows, req.skip_duplicates, req.ignore_extra_fields,
                         fault)
    IN  IF prepared.err # "" THEN [s EXCEPT !.err = prepared.err]
        ELSE IF req.insert_to_master
        THEN IF ~s.in_transaction
             THEN end_transaction(s, body(start_transaction(s)))
             ELSE body(s)
        ELSE Table_insert(s, t, prepared.rows, req.skip_duplicates,
                          req.ignore_extra_fields, fault)

\* base.py:886 and 902: part.insert(rows=rows, ignore_extra_fields=True)
insert_to_parts_kws(df) ==
    Request(df, <<>>, FALSE, FALSE, FALSE, TRUE, NoParts, FALSE)

\* a loop that takes the parts last to first
RECURSIVE InsertToParts_reversed(_, _, _, _, _)
InsertToParts_reversed(s, cl, parts, df, fault) ==
    IF parts = <<>> THEN s
    ELSE InsertToParts_reversed(
             BasePart_insert(s, cl, parts[Len(parts)], insert_to_parts_kws(df), fault),
             cl, SubSeq(parts, 1, Len(parts) - 1), df, fault)

\* base.py:885-886: for part in insert_to_parts: part.insert(...)
RECURSIVE InsertToParts(_, _, _, _, _)
InsertToParts(s, cl, parts, df, fault) ==
    IF parts = <<>> THEN s
    ELSE InsertToParts(BasePart_insert(s, cl, parts[1], insert_to_parts_kws(df), fault),
                       cl, Tail(parts), df, fault)

\* base.py:583-607: the master of the model has the parts PartNames
has_parts == Len(PartNames) > 0

\* base.py:851-913
BaseMaster_insert(s, cl, req, fault) ==
    LET validation == _insert_validation(Master, cl[Master])
        prepared == _prepare_insert(Master, cl[Master], req.rows, req.constant_attrs,
                                    req.overwrite_rows, req.skip_hashing)
        body(s0) ==
            LET s1 == Table_insert(s0, Master, prepared.rows, req.skip_duplicates,
                                   req.ignore_extra_fields, fault)
            IN  IF s1.err # "" THEN s1
                ELSE IF ~has_parts THEN [s1 EXCEPT !.err = "AssertionError"]
                ELSE InsertToParts(s1, cl, req.insert_to_parts.parts, prepared.rows, fault)
    IN  IF validation # "" THEN [s EXCEPT !.err = validation]
        ELSE IF prepared.err # "" THEN [s EXCEPT !.err = prepared.err]
        ELSE IF req.insert_to_parts.given
        THEN IF ~s.in_transaction
             THEN end_transaction(s, body(start_transaction(s)))
             ELSE body(s)
        ELSE Table_insert(s, Master, prepared.rows, req.skip_duplicates,
                          req.ignore_extra_fields, fault)

(***************************************************************************)
(* The calls of the insert specifications and what ret keeps of a call.    *)
(***************************************************************************)
\* the hash the tables of the model give a row with a = v
HashOfValue(v) ==
    Truncate(generate_hash(DataFrame(<<"a">>, <<[a |-> v]>>), <<>>), 32)

\* one-row batches: a alone, a with the hash it was given before, h alone
BatchA(v) == DataFrame(<<"a">>, <<[a |-> v]>>)

BatchAH(v) == DataFrame(<<"a", "h">>, <<[a |-> v, h |-> HashOfValue(v)]>>)

BatchH(v) == DataFrame(<<"h">>, <<[h |-> HashOfValue(v)]>>)

Keys(constant_attrs) == {constant_attrs[i][1] : i \in 1..Len(constant_attrs)}

Outcome(call, t, c, req, s0, s) ==
    [call |-> call, table |-> t, err |-> s.err, calls |-> s.calls,
     in_transaction |-> s0.in_transaction,
     left_in_transaction |-> s.in_transaction,
     overwrite_rows |-> req.overwrite_rows,
     hash_in_rows |-> c.enable_hashing /\ ~req.skip_hashing
                      /\ c.hash_name \in Range(req.rows.columns),
     constant_in_rows |-> Keys(req.constant_attrs) \cap Range(req.rows.columns) # {},
     hashed_missing |-> ~(Range(c.hashed_attrs) \subseteq
                            Range(req.rows.columns) \cup Keys(req.constant_attrs)),
     cascade |-> req.insert_to_parts.given \/ req.insert_to_master,
     parts |-> req.insert_to_parts.parts]

NoCall ==
    [call |-> "", table |-> "", err |-> "", calls |-> <<>>, in_transaction |-> FALSE,
     left_in_transaction |-> FALSE,
     overwrite_rows |-> FALSE, hash_in_rows |-> FALSE, constant_in_rows |-> FALSE,
     hashed_missing |-> FALSE, cascade |-> FALSE, parts |-> <<>>]

AllTables == {Master} \cup Range(PartNames)

Classes(master_hashes, parts_hash) ==
    [t \in AllTables |-> InsertClass(t, IF t = Master THEN master_hashes ELSE parts_hash)]

EmptyDb == [t \in AllTables |-> {}]

\* cls.insert(rows, **req) on the master
CallMasterInsert(req, fault) ==
    LET s0 == Thread(db, conn.in_transaction)
        s == BaseMaster_insert(s0, tables, req, fault)
    IN  /\ db' = s.db
        /\ ret' = Outcome("BaseMaster.insert", Master, tables[Master], req, s0, s)
        /\ UNCHANGED <<tables, conn, hashVars, serviceVars, restVars>>

\* cls.insert(rows, **req) on part t
CallPartInsert(t, req, fault) ==
    LET s0 == Thread(db, conn.in_transaction)
        s == BasePart_insert(s0, tables, t, req, fault)
    IN  /\ db' = s.db
        /\ ret' = Outcome("BasePart.insert", t, tables[t], req, s0, s)
        /\ UNCHANGED <<tables, conn, hashVars, serviceVars, restVars>>

HashIdle ==
    /\ cls = PermuteClass
    /\ rows = EmptyFrame
    /\ op = LastOp("", "")
    /\ dhash = IdleDigests
    /\ out = IdleOut

(***************************************************************************)
(* SpecPrepare: inserts whose rows may already carry the hash column or a  *)
(* constant attribute, into the master (cascading to P1) and into P1       *)
(* (cascading to the master), outside a transaction.                       *)
(***************************************************************************)
PrepareBatches == UNION {{BatchA(v), BatchAH(v), BatchH(v)} : v \in 0..MaxVal}

ConstantAttrsChoices == {<<>>, << <<"a", 0>> >>}

PrepareInit ==
    /\ HashIdle
    /\ ServiceIdle
    /\ RestIdle
    /\ tables \in {Classes(m, p) : m \in BOOLEAN, p \in BOOLEAN}
    /\ db = EmptyDb
    /\ conn = [in_transaction |-> FALSE]
    /\ ret = NoCall

PrepareMasterInsert ==
    \E df \in PrepareBatches, ca \in ConstantAttrsChoices,
       overwrite_rows \in BOOLEAN, skip_hashing \in BOOLEAN :
        CallMasterInsert(Request(df, ca, overwrite_rows, skip_hashing, FALSE, FALSE,
                                 [given |-> TRUE, parts |-> <<"P1">>], FALSE), 0)

PreparePartInsert ==
    \E df \in PrepareBatches, ca \in ConstantAttrsChoices,
       overwrite_rows \in BOOLEAN, skip_hashing \in BOOLEAN :
        CallPartInsert("P1", Request(df, ca, overwrite_rows, skip_hashing, FALSE, FALSE,
                                     NoParts, TRUE), 0)

PrepareNext == PrepareMasterInsert \/ PreparePartInsert

SpecPrepare == PrepareInit /\ [][PrepareNext]_vars

(***************************************************************************)
(* SpecInsert: plain and cascading inserts into the master and the parts,  *)
(* inside and outside a transaction of the caller, with an engine that may *)
(* fail at any one of the inserts of a call.  Either the master hashes a   *)
(* into h and the parts take h from the rows, or the parts hash and the    *)
(* master takes h from the rows.                                           *)
(***************************************************************************)
InsertBatches == UNION {{BatchA(v), BatchAH(v)} : v \in 0..MaxKey}

\* a call makes at most one insert into the master and one into each part
Faults == 0..(1 + Len(PartNames))

InsertToPartsChoices ==
    {NoParts} \cup {[given |-> TRUE, parts |-> p] :
                       p \in {<<"P1">>, <<"P1", "P2">>, <<"P2", "P1">>}}

InsertInit ==
    /\ HashIdle
    /\ ServiceIdle
    /\ RestIdle
    /\ tables \in {Classes(TRUE, FALSE), Classes(FALSE, TRUE)}
    /\ db = EmptyDb
    /\ conn = [in_transaction |-> FALSE]
    /\ ret = NoCall

InsertMaster ==
    \E df \in InsertBatches, parts \in InsertToPartsChoices, fault \in Faults :
        CallMasterInsert(Request(df, <<>>, FALSE, FALSE, FALSE, FALSE, parts, FALSE), fault)

InsertPart ==
    \E t \in Range(PartNames), df \in InsertBatches, insert_to_master \in BOOLEAN,
       fault \in Faults :
        CallPartInsert(t, Request(df, <<>>, FALSE, FALSE, FALSE, TRUE, NoParts,
                                  insert_to_master), fault)

\* the caller enters a transaction of its own (connection.start_transaction)
StartTransaction ==
    /\ ~conn.in_transaction
    /\ conn' = [in_transaction |-> TRUE]
    /\ ret' = NoCall
    /\ UNCHANGED <<tables, db, hashVars, serviceVars, restVars>>

\* the caller commits its transaction (connection.commit_transaction)
CommitTransaction ==
    /\ conn.in_transaction
    /\ conn' = [in_transaction |-> FALSE]
    /\ ret' = NoCall
    /\ UNCHANGED <<tables, db, hashVars, serviceVars, restVars>>

InsertNext == InsertMaster \/ InsertPart \/ StartTransaction \/ CommitTransaction

SpecInsert == InsertInit /\ [][InsertNext]_vars

(***************************************************************************)
(* base.py: the restrict_* class methods of BaseMaster.  d is the          *)
(* database, a restriction is the list of the items of a dict, a           *)
(* restricted part is [part, rows], an error is [type, msg].               *)
(***************************************************************************)
NoError == [type |-> "", msg |-> ""]

ValidationError(msg) == [type |-> "ValidationError", msg |-> msg]

AssertionError(msg) == [type |-> "AssertionError", msg |-> msg]

Columns(restr) == {restr[i][1] : i \in 1..Len(restr)}

\* p & part_restr: the attributes of a dict that the heading lacks are ignored
Restricted(d, t, restr) ==
    [part |-> t,
     rows |-> {r \in d[t] : \A i \in 1..Len(restr) :
                 restr[i][1] \in Range(Heading(t)) => r[restr[i][1]] = restr[i][2]}]

\* base.py:716-748
restrict_parts(d, part_restr, include_parts, exclude_parts, filter_out_disjoint, filter_out_len_zero) ==
    IF ~has_parts
    THEN [err |-> AssertionError("No part tables found."), value |-> <<>>]
    ELSE
    LET NotExcluded(t) ==
            FullTableName(t) \notin {FullTableName(e) : e \in Range(exclude_parts.parts)}
        Overlaps(t) == Range(Heading(t)) \cap Columns(part_restr) # {}
        NonEmpty(p) == p.rows # {}
        parts0 == IF ~include_parts.given THEN PartNames ELSE include_parts.parts
        parts1 == IF exclude_parts.given THEN SelectSeq(parts0, NotExcluded) ELSE parts0
        parts2 == IF filter_out_disjoint THEN SelectSeq(parts1, Overlaps) ELSE parts1
        parts3 == [i \in 1..Len(parts2) |-> Restricted(d, parts2[i], part_restr)]
        parts4 == IF filter_out_len_zero THEN SelectSeq(parts3, NonEmpty) ELSE parts3
    IN  [err |-> NoError, value |-> parts4]

\* utils.py:40-44
unwrap(item) == IF Len(item) = 1 THEN item[1] ELSE item

\* a restrict_one_part that takes the first part when several remain
restrict_one_part_first(d, part_restr, include_parts, exclude_parts, filter_out_disjoint, filter_out_len_zero) ==
    LET parts == restrict_parts(d, part_restr, include_parts, exclude_parts,
                                filter_out_disjoint, filter_out_len_zero)
    IN  IF parts.err # NoError THEN parts
        ELSE IF Len(parts.value) < 1
        THEN [err |-> ValidationError("part_restr can not restrict any part tables."),
              value |-> <<>>]
        ELSE [err |-> NoError, value |-> parts.value[1]]

\* base.py:750-768
restrict_one_part(d, part_restr, include_parts, exclude_parts, filter_out_disjoint, filter_out_len_zero) ==
    LET parts == restrict_parts(d, part_restr, include_parts, exclude_parts,
                                filter_out_disjoint, filter_out_len_zero)
    IN  IF parts.err # NoError THEN parts
        ELSE IF Len(parts.value) > 1
        THEN [err |-> ValidationError("part_restr can restrict multiple part tables."),
              value |-> <<>>]
        ELSE IF Len(parts.value) < 1
        THEN [err |-> ValidationError("part_restr can not restrict any part tables."),
              value |-> <<>>]
        ELSE [err |-> NoError, value |-> unwrap(parts.value)]

\* a restrict_parts_with_hash that keeps the parts without the hash attribute
restrict_parts_with_hash_any(d, c, hash, hash_name, include_parts, exclude_parts, filter_out_len_zero) ==
    LET name == IF hash_name = "None" THEN c.hash_name ELSE hash_name
    IN  IF name = "None"
        THEN [err |-> ValidationError("Table does not have \"hash_name\" defined"),
              value |-> <<>>]
        ELSE restrict_parts(d, << <<name, hash>> >>, include_parts, exclude_parts,
                            FALSE, filter_out_len_zero)

\* base.py:806-831; c is the class of the master
restrict_parts_with_hash(d, c, hash, hash_name, include_parts, exclude_parts, filter_out_len_zero) ==
    LET name == IF hash_name = "None" THEN c.hash_name ELSE hash_name
        parts == restrict_parts(d, << <<name, hash>> >>, include_parts, exclude_parts,
                                FALSE, filter_out_len_zero)
        HasHash(p) == name \in Range(Heading(p.part))
    IN  IF name = "None"
        THEN [err |-> ValidationError("Table does not have \"hash_name\" defined"),
              value |-> <<>>]
        ELSE IF parts.err # NoError THEN parts
        ELSE [err |-> NoError, value |-> SelectSeq(parts.value, HasHash)]

\* base.py:784-802
restrict_one_part_with_hash(d, c, hash, hash_name, include_parts, exclude_parts, filter_out_len_zero) ==
    LET parts == restrict_parts_with_hash(d, c, hash, hash_name, include_parts,
                                          exclude_parts, filter_out_len_zero)
    IN  IF parts.err # NoError THEN parts
        ELSE IF Len(parts.value) > 1
        THEN [err |-> ValidationError("Hash found in multiple part tables."),
              value |-> <<>>]
        ELSE IF Len(parts.value) < 1
        THEN [err |-> ValidationError("Hash not found in any part tables."),
              value |-> <<>>]
        ELSE [err |-> NoError, value |-> parts.value[1]]

(***************************************************************************)
(* SpecParts: restrict_one_part, restrict_parts_with_hash and              *)
(* restrict_one_part_with_hash on a master whose parts hold any rows the   *)
(* inserts can leave: every row has h the hash of a, and every part row    *)
(* has its master row.                                                     *)
(***************************************************************************)
KeyValues == 0..MaxKey

\* the values a query asks for: those of the rows and one no row has
QueryValues == 0..(MaxKey + 1)

RowOf(t, v) == [c \in Range(Heading(t)) |-> IF c = "h" THEN HashOfValue(v) ELSE v]

PartsDatabases ==
    UNION {{[t \in AllTables |->
               {RowOf(t, v) : v \in IF t = Master THEN K ELSE IF t = "P1" THEN K1 ELSE K2}] :
            K1 \in SUBSET K, K2 \in SUBSET K} : K \in SUBSET KeyValues}

Restrictions ==
    {<<>>} \cup UNION {{<< <<"h", HashOfValue(v)>> >>, << <<"a", v>> >>} : v \in QueryValues}

\* (hash_name, hash) arguments; hash_name "None" stands for the default None
HashArguments ==
    UNION {{<<"None", HashOfValue(v)>>, <<"h", HashOfValue(v)>>, <<"a", v>>} :
           v \in QueryValues}

IncludeChoices == {NoParts, [given |-> TRUE, parts |-> <<"P2", "P1">>]}

ExcludeChoices == {NoParts, [given |-> TRUE, parts |-> <<"P2">>]}

\* base.py:823-824: hash_name, or cls.hash_name of the master when it is None
HashName(hash_name) == IF hash_name = "None" THEN tables[Master].hash_name ELSE hash_name

Query(query, restr, hash_name, include_parts, exclude_parts, filter_out_disjoint, filter_out_len_zero, result) ==
    [query |-> query, restr |-> restr, hash_name |-> hash_name,
     include_parts |-> include_parts, exclude_parts |-> exclude_parts,
     filter_out_disjoint |-> filter_out_disjoint,
     filter_out_len_zero |-> filter_out_len_zero,
     err |-> result.err, value |-> result.value]

NoQuery ==
    Query("", <<>>, "None", NoParts, NoParts, FALSE, FALSE, [err |-> NoError, value |-> <<>>])

PartsInit ==
    /\ HashIdle
    /\ RestIdle
    /\ tables \in {Classes(TRUE, FALSE), Classes(FALSE, TRUE)}
    /\ db \in PartsDatabases
    /\ conn = [in_transaction |-> FALSE]
    /\ ret = NoCall
    /\ res = NoQuery
    /\ log = {}
    /\ logcall = <<>>

RestrictOnePart ==
    \E restr \in Restrictions, include_parts \in IncludeChoices,
       exclude_parts \in ExcludeChoices, filter_out_disjoint \in BOOLEAN,
       filter_out_len_zero \in BOOLEAN :
        /\ res' = Query("restrict_one_part", restr, "None", include_parts, exclude_parts,
                        filter_out_disjoint, filter_out_len_zero,
                        restrict_one_part(db, restr, include_parts, exclude_parts,
                                          filter_out_disjoint, filter_out_len_zero))
        /\ UNCHANGED <<hashVars, insertVars, log, logcall, restVars>>

RestrictPartsWithHash ==
    \E h \in HashArguments, include_parts \in IncludeChoices,
       exclude_parts \in ExcludeChoices, filter_out_len_zero \in BOOLEAN :
        /\ res' = Query("restrict_parts_with_hash", << <<HashName(h[1]), h[2]>> >>, h[1],
                        include_parts, exclude_parts, FALSE, filter_out_len_zero,
                        restrict_parts_with_hash(db, tables[Master], h[2], h[1],
                                                 include_parts, exclude_parts,
                                                 filter_out_len_zero))
        /\ UNCHANGED <<hashVars, insertVars, log, logcall, restVars>>

RestrictOnePartWithHash ==
    \E h \in HashArguments, include_parts \in IncludeChoices,
       exclude_parts \in ExcludeChoices, filter_out_len_zero \in BOOLEAN :
        /\ res' = Query("restrict_one_part_with_hash", << <<HashName(h[1]), h[2]>> >>, h[1],
                        include_parts, exclude_parts, FALSE, filter_out_len_zero,
                        restrict_one_part_with_hash(db, tables[Master], h[2], h[1],
                                                    include_parts, exclude_parts,
                                                    filter_out_len_zero))
        /\ UNCHANGED <<hashVars, insertVars, log, logcall, restVars>>

PartsNext == RestrictOnePart \/ RestrictPartsWithHash \/ RestrictOnePartWithHash

SpecParts == PartsInit /\ [][PartsNext]_vars

(***************************************************************************)
(* table.py: the table log ~tables.  A row is                              *)
(*   [table_id, full_table_name, exists, djp_version]                      *)
(* with primary key table_id; the timestamp column, which no update        *)
(* touches, is left out.  None is written NoneId for a table_id and "None" *)
(* for a full_table_name.                                                  *)
(***************************************************************************)
NoneId == [md5 |-> <<>>, len |-> -1]

\* table.py:25: the version of the package
version == "djp_version"

\* table_id LIKE "{pattern}%" (table.py:412): the empty string is a prefix
\* of every table_id, any other string of the digest it was cut from
Like(table_id, pattern) ==
    \/ pattern.len = 0
    \/ pattern.md5 = table_id.md5 /\ pattern.len <= table_id.len

\* an update that deletes the tuple instead of rewriting it
_update_deleting(lg, restr, value) ==
    IF Cardinality(restr) # 1
    THEN [log |-> lg, err |-> "DataJointError"]
    ELSE [log |-> lg \ restr, err |-> ""]

\* table.py:277-318: restr._update('exists', value), restr a set of rows of lg
_update(lg, restr, value) ==
    IF Cardinality(restr) # 1
    THEN [log |-> lg, err |-> "DataJointError"]
    ELSE [log |-> {IF r \in restr THEN [r EXCEPT !.exists = value] ELSE r : r \in lg},
          err |-> ""]

\* a log that takes the table_id it is given
TableLog_call_trusting(lg, table_id, full_table_name, action) ==
    IF action = "add"
    THEN IF full_table_name = "None" THEN [log |-> lg, err |-> "AssertionError"]
         ELSE LET id == IF table_id = NoneId THEN generate_table_id(full_table_name)
                        ELSE table_id
                  inserted == IF {r \in lg : r.table_id = id} = {}
                              THEN lg \cup {[table_id |-> id,
                                             full_table_name |-> full_table_name,
                                             exists |-> 1, djp_version |-> version]}
                              ELSE lg
              IN  _update(inserted, {r \in inserted : r.table_id = id}, 1)
    ELSE LET restr == {r \in lg :
                          /\ table_id # NoneId => Like(r.table_id, table_id)
                          /\ full_table_name # "None" => r.full_table_name = full_table_name}
         IN  IF Cardinality(restr) # 1 THEN [log |-> lg, err |-> "AssertionError"]
             ELSE _update(lg, restr, 0)

\* table.py:381-433, TableLog.__call__ with action 'add' or 'delete'; the
\* except clause swallows the exception err and leaves the log as it was.
\* The first assertion of the delete branch (table.py:419) tests ~(...) of a
\* bool, which is -1 or -2 and never fails.
TableLog_call(lg, table_id, full_table_name, action) ==
    IF action = "add"
    THEN IF full_table_name = "None" THEN [log |-> lg, err |-> "AssertionError"]
         ELSE IF table_id # NoneId /\ table_id # generate_table_id(full_table_name)
         THEN [log |-> lg, err |-> "AssertionError"]
         ELSE LET id == IF table_id = NoneId THEN generate_table_id(full_table_name)
                        ELSE table_id
                  inserted == IF {r \in lg : r.table_id = id} = {}
                              THEN lg \cup {[table_id |-> id,
                                             full_table_name |-> full_table_name,
                                             exists |-> 1, djp_version |-> version]}
                              ELSE lg
              IN  _update(inserted, {r \in inserted : r.table_id = id}, 1)
    ELSE LET restr == {r \in lg :
                          /\ table_id # NoneId => Like(r.table_id, table_id)
                          /\ full_table_name # "None" => r.full_table_name = full_table_name}
         IN  IF Cardinality(restr) # 1 THEN [log |-> lg, err |-> "AssertionError"]
             ELSE _update(lg, restr, 0)

\* self._table_log(table_id, full_table_name, action=action) made by caller
LogCall(caller, table_id, full_table_name, action) ==
    LET result == TableLog_call(log, table_id, full_table_name, action)
    IN  /\ log' = result.log
        /\ logcall' = [caller |-> caller, action |-> action, table_id |-> table_id,
                       full_table_name |-> full_table_name, err |-> result.err]
        /\ UNCHANGED <<hashVars, insertVars, res, restVars>>

(***************************************************************************)
(* SpecLog: tables are declared and dropped, and the log is called         *)
(* directly with any table_id and full_table_name.                         *)
(***************************************************************************)
TableIdArguments ==
    {NoneId, Truncate(generate_table_id(TableNames[1]), 0)}
        \cup UNION {{generate_table_id(n), Truncate(generate_table_id(n), 8)} :
                    n \in Range(TableNames)}

FullTableNameArguments == {"None"} \cup Range(TableNames)

LogInit ==
    /\ HashIdle
    /\ RestIdle
    /\ InsertIdle
    /\ res = <<>>
    /\ log = {}
    /\ logcall = [caller |-> "", action |-> "", table_id |-> NoneId,
                  full_table_name |-> "None", err |-> ""]

\* table.py:37-40, Table.declare
Table_declare ==
    \E n \in Range(TableNames) : LogCall("Table.declare", generate_table_id(n), n, "add")

\* table.py:42-48, Table.drop and Table.drop_quick
Table_drop ==
    \E n \in Range(TableNames) : LogCall("Table.drop", generate_table_id(n), "None", "delete")

\* table.py:326-332, FreeTable.drop and FreeTable.drop_quick
FreeTable_drop ==
    \E n \in Range(TableNames) : LogCall("FreeTable.drop", NoneId, n, "delete")

\* the log called directly
TableLog_add ==
    \E table_id \in TableIdArguments, n \in FullTableNameArguments :
        LogCall("", table_id, n, "add")

TableLog_delete ==
    \E table_id \in TableIdArguments, n \in FullTableNameArguments :
        LogCall("", table_id, n, "delete")

LogNext == Table_declare \/ Table_drop \/ FreeTable_drop \/ TableLog_add \/ TableLog_delete

SpecLog == LogInit /\ [][LogNext]_vars

(***************************************************************************)
(* utils.py: goto.  A table id is a string of hex digits; the model keeps  *)
(* strings of IdLen binary digits.  A user class is [table_id, parts], the *)
(* searched module is the list of its classes in the order                 *)
(* inspect.getmembers gives them, and a full table name is modelled by the *)
(* table id it hashes to.  None is written NoneString.                     *)
(***************************************************************************)
Digits == {"0", "1"}

IdStrings == [1..IdLen -> Digits]

NoneString == <<"None">>

\* p in s, for strings
Contains(s, p) == \E i \in 0..(Len(s) - Len(p)) : SubSeq(s, i + 1, i + Len(p)) = p

StartsWith(s, p) == Len(p) <= Len(s) /\ SubSeq(s, 1, Len(p)) = p

FullNameOf(table_id) == <<"db.", table_id>>

\* hash.py:65-72 on the full table names of the model
generate_table_id_string(full_table_name) == full_table_name[2]

\* utils.py:235-248: the matches check_directory appends, in order.  The
\* scan of a directory returns at its first match; "table_id in
\* obj.table_id" raises TypeError for table_id None, which the except
\* clause turns into a warning.
RECURSIVE check_directory(_, _)
check_directory(members, table_id) ==
    IF members = <<>> THEN <<>>
    ELSE LET obj == Head(members)
         IN  IF table_id = NoneString
             THEN check_directory(Tail(members), table_id)
             ELSE IF Contains(obj.table_id, table_id)
             THEN <<obj.table_id>>
             ELSE check_directory(obj.parts, table_id)
                      \o check_directory(Tail(members), table_id)

\* a goto that raises unless exactly one table matches
goto_raising(table_id, full_table_name, d) ==
    LET id == IF full_table_name # NoneString
              THEN generate_table_id_string(full_table_name) ELSE table_id
        match == check_directory(d, id)
    IN  IF Cardinality(Range(match)) = 1
        THEN [err |-> "", value |-> match[1], warning |-> ""]
        ELSE [err |-> "Exception", value |-> NoneString, warning |-> ""]

\* utils.py:212-264; the assertion at line 225 tests ~(...) of a bool and
\* never fails
goto(table_id, full_table_name, d) ==
    LET table_id_eval == generate_table_id_string(full_table_name)
        mismatch == /\ full_table_name # NoneString
                    /\ table_id # NoneString
                    /\ table_id # table_id_eval
        id == IF full_table_name # NoneString THEN table_id_eval ELSE table_id
        match == check_directory(d, id)
        n_unique_matches == Cardinality(Range(match))
    IN  IF mismatch
        THEN [err |-> "AssertionError", value |-> NoneString, warning |-> ""]
        ELSE IF n_unique_matches = 1
        THEN [err |-> "", value |-> match[1], warning |-> ""]
        ELSE IF n_unique_matches > 1
        THEN [err |-> "", value |-> NoneString,
              warning |-> "table_id matched to multiple tables."]
        ELSE [err |-> "", value |-> NoneString,
              warning |-> "table_id did not match to any tables."]

\* the handle on the log itself that a call without arguments returns
LogItself == <<"~tables">>

\* table.py:410-433, TableLog.__call__ with action None: the rows of the log
\* restricted by table_id LIKE "{table_id}%" and by full_table_name; fetch1
\* raises unless there is exactly one, and the except clause logs what was
\* raised and returns None
TableLog_lookup(lg, table_id, full_table_name, d) ==
    LET restr == {r \in lg :
                     /\ table_id # NoneString => StartsWith(r.table_id, table_id)
                     /\ full_table_name # NoneString => r.full_table_name = full_table_name}
    IN  IF table_id = NoneString /\ full_table_name = NoneString
        THEN [err |-> "", value |-> LogItself, warning |-> ""]
        ELSE IF Cardinality(restr) # 1
        THEN [err |-> "", value |-> NoneString,
              warning |-> "failure interacting with ~tables"]
        ELSE goto((CHOOSE r \in restr : TRUE).table_id, NoneString, d)

(***************************************************************************)
(* SpecGoto: goto, and the lookup in the log that ends in goto, on a       *)
(* module with a class that has a part, followed by a second class, for    *)
(* every choice of their table ids, every argument, and a log that holds   *)
(* some of the tables of the module.                                       *)
(***************************************************************************)
Directories ==
    {<< [table_id |-> x, parts |-> << [table_id |-> p, parts |-> <<>>] >>],
        [table_id |-> y, parts |-> <<>>] >> : x \in IdStrings, p \in IdStrings, y \in IdStrings}

\* the table ids of the classes of a module, parts included
RECURSIVE ClassIds(_)
ClassIds(members) ==
    IF members = <<>> THEN {}
    ELSE {Head(members).table_id} \cup ClassIds(Head(members).parts) \cup ClassIds(Tail(members))

\* the rows table.py:393-400 inserts for the tables with these ids
LogRows(ids) ==
    {[table_id |-> i, full_table_name |-> FullNameOf(i), exists |-> 1,
      djp_version |-> version] : i \in ids}

\* the strings a caller may pass as table_id: None and every string of at
\* most IdLen digits
TableIdStrings == {NoneString} \cup UNION {[1..n -> Digits] : n \in 0..IdLen}

FullNameStrings == {NoneString} \cup {FullNameOf(s) : s \in IdStrings}

NotCalled == [fn |-> "", err |-> "", value |-> NoneString, warning |-> ""]

Found(fn, r) == [fn |-> fn, err |-> r.err, value |-> r.value, warning |-> r.warning]

GotoInit ==
    /\ HashIdle
    /\ InsertIdle
    /\ SchemaIdle
    /\ LaterIdle
    /\ res = <<>>
    /\ logcall = <<>>
    /\ directory \in Directories
    /\ log \in {LogRows(ids) : ids \in SUBSET ClassIds(directory)}
    /\ gotocall \in [table_id : TableIdStrings, full_table_name : FullNameStrings]
    /\ found = NotCalled

\* utils.goto(table_id, full_table_name, directory)
Goto ==
    /\ found = NotCalled
    /\ found' = Found("goto", goto(gotocall.table_id, gotocall.full_table_name, directory))
    /\ UNCHANGED <<hashVars, insertVars, serviceVars, schemaVars, laterVars, directory, gotocall>>

\* schema.tables(table_id, full_table_name, directory=directory)
Lookup ==
    /\ found = NotCalled
    /\ found' = Found("tables", TableLog_lookup(log, gotocall.table_id,
                                                gotocall.full_table_name, directory))
    /\ UNCHANGED <<hashVars, insertVars, serviceVars, schemaVars, laterVars, directory, gotocall>>

GotoNext == Goto \/ Lookup

SpecGoto == GotoInit /\ [][GotoNext]_vars

(***************************************************************************)
(* schema.py: the construction of a Schema reconciles the log with the     *)
(* tables the database holds.                                              *)
(***************************************************************************)
\* the table names of TableNames inside their database
ShortNames == <<"master", "master__p1", "master__p2">>

\* utils.py:58-67
reform_full_table_name(schema_name, table_name) ==
    TableNames[CHOOSE i \in 1..Len(ShortNames) : ShortNames[i] = table_name]

\* utils.py:47-55
split_full_table_name(full_table_name) == <<"db", ShortNames[TableNameRank(full_table_name)]>>

\* Schema.list_tables(): the live tables, in the order of their dependencies
list_tables(lv) == SelectSeq(ShortNames, LAMBDA n : n \in lv)

\* what can go wrong between the two statements of the try block: nothing,
\* the at-th call of self.tables failing inside the log (which the log
\* swallows, table.py:435-437), or an exception at the at-th call that
\* reaches the try block
NoFault == [kind |-> "none", at |-> 0]

SchemaFaults ==
    {NoFault} \cup {[kind |-> k, at |-> i] : k \in {"call", "raise"}, i \in 1..Len(TableNames)}

\* schema.py:31-33: the adds, one per live table; calls counts the calls of
\* self.tables so far
RECURSIVE SchemaAdds(_, _, _, _)
SchemaAdds(lg, names, calls, fault) ==
    IF names = <<>> THEN [log |-> lg, raised |-> FALSE, calls |-> calls]
    ELSE IF fault = [kind |-> "raise", at |-> calls + 1]
    THEN [log |-> lg, raised |-> TRUE, calls |-> calls + 1]
    ELSE LET full_table_name == reform_full_table_name("db", Head(names))
             added == IF fault = [kind |-> "call", at |-> calls + 1] THEN lg
                      ELSE TableLog_call(lg, generate_table_id(full_table_name),
                                         full_table_name, "add").log
         IN  SchemaAdds(added, Tail(names), calls + 1, fault)

\* schema.py:34-37: the deletes, one per row of the log whose table is not
\* live; keys are the full table names of the rows still to visit
RECURSIVE SchemaDeletes(_, _, _, _, _)
SchemaDeletes(lg, keys, lv, calls, fault) ==
    IF keys = <<>> THEN [log |-> lg, raised |-> FALSE, calls |-> calls]
    ELSE IF split_full_table_name(Head(keys))[2] \in lv
    THEN SchemaDeletes(lg, Tail(keys), lv, calls, fault)
    ELSE IF fault = [kind |-> "raise", at |-> calls + 1]
    THEN [log |-> lg, raised |-> TRUE, calls |-> calls + 1]
    ELSE LET deleted == IF fault = [kind |-> "call", at |-> calls + 1] THEN lg
                        ELSE TableLog_call(lg, NoneId, Head(keys), "delete").log
         IN  SchemaDeletes(deleted, Tail(keys), lv, calls + 1, fault)

\* schema.py:29-39: the try block of Schema.__init__.  self._tables is None
\* until the tables property is first read (schema.py:48-52), which the
\* adds do once per live table; "for key in self._tables" then iterates
\* None when no table is live and raises TypeError.  The except clause
\* swallows whatever was raised.
Schema_init(lg, lv, fault) ==
    LET adds == SchemaAdds(lg, list_tables(lv), 0, fault)
        keys == SelectSeq(TableNames, LAMBDA n : \E r \in adds.log : r.full_table_name = n)
    IN  IF adds.raised THEN [log |-> adds.log, raised |-> TRUE]
        ELSE IF adds.calls = 0 THEN [log |-> adds.log, raised |-> TRUE]
        ELSE LET deletes == SchemaDeletes(adds.log, keys, lv, adds.calls, fault)
             IN  [log |-> deletes.log, raised |-> deletes.raised]

(***************************************************************************)
(* SpecSchema: tables are declared and dropped, through this package       *)
(* (which logs them) or behind its back (which does not), and a Schema is  *)
(* constructed on whatever log and live tables that leaves.                *)
(***************************************************************************)
NoSchema == [built |-> FALSE, fault |-> NoFault, raised |-> FALSE]

SchemaInit ==
    /\ HashIdle
    /\ InsertIdle
    /\ GotoIdle
    /\ LaterIdle
    /\ res = <<>>
    /\ logcall = <<>>
    /\ log = {}
    /\ live = {}
    /\ schema = NoSchema

\* table.py:37-40, Table.declare on a table that is not live
DeclareLogged ==
    \E n \in Range(ShortNames) :
        LET full_table_name == reform_full_table_name("db", n)
        IN  /\ n \notin live
            /\ live' = live \cup {n}
            /\ log' = TableLog_call(log, generate_table_id(full_table_name),
                                    full_table_name, "add").log
            /\ schema' = NoSchema
            /\ UNCHANGED <<hashVars, insertVars, res, logcall, gotoVars, laterVars>>

\* table.py:42-48, Table.drop and Table.drop_quick on a live table
DropLogged ==
    \E n \in live :
        /\ live' = live \ {n}
        /\ log' = TableLog_call(log, generate_table_id(reform_full_table_name("db", n)),
                                "None", "delete").log
        /\ schema' = NoSchema
        /\ UNCHANGED <<hashVars, insertVars, res, logcall, gotoVars, laterVars>>

\* a table created or dropped without this package: list_tables changes,
\* the log does not
ChangeUnlogged ==
    \E n \in Range(ShortNames) :
        /\ live' = IF n \in live THEN live \ {n} ELSE live \cup {n}
        /\ schema' = NoSchema
        /\ UNCHANGED <<hashVars, insertVars, serviceVars, gotoVars, laterVars>>

\* schema.py:25-41, Schema.__init__
Schema_construct ==
    \E fault \in SchemaFaults :
        LET r == Schema_init(log, live, fault)
        IN  /\ log' = r.log
            /\ schema' = [built |-> TRUE, fault |-> fault, raised |-> r.raised]
            /\ UNCHANGED <<hashVars, insertVars, res, logcall, gotoVars, laterVars, live>>

SchemaNext == DeclareLogged \/ DropLogged \/ ChangeUnlogged \/ Schema_construct

SpecSchema == SchemaInit /\ [][SchemaNext]_vars

(***************************************************************************)
(* motif_base.py: delete on a nested part.  The master holds rows with     *)
(* key a, each nested part at most one row per master row (its primary key *)
(* is the foreign key to the master, motif_user_tables.py:176-182).  The   *)
(* deletes themselves are DataJoint's: Table.delete asks for confirmation  *)
(* and cascades to the dependent rows, Table.delete_quick does neither,    *)
(* and Part.delete refuses unless forced in the releases that define it.   *)
(***************************************************************************)
DeleteKeys == 0..MaxVal

\* the stores that respect the foreign keys of the parts
Stores ==
    {st \in [master : SUBSET DeleteKeys, P1 : SUBSET DeleteKeys, P2 : SUBSET DeleteKeys] :
        st.P1 \subseteq st.master /\ st.P2 \subseteq st.master}

\* dj Table.delete on (master & keys): the master rows and, by cascade, the
\* rows of every part that refer to them
master_delete(st, keys, confirm) ==
    IF (st.master \cap keys) = {} \/ ~confirm THEN st
    ELSE [master |-> st.master \ keys, P1 |-> st.P1 \ keys, P2 |-> st.P2 \ keys]

\* dj Table.delete on the rows of the part itself
part_delete(st, keys, confirm) ==
    IF (st.P1 \cap keys) = {} \/ ~confirm THEN st ELSE [st EXCEPT !.P1 = st.P1 \ keys]

\* a delete that removes the rows of the part and leaves the master alone
Nested_delete_direct(st, restr, delete_from_master, confirm, refuses) ==
    LET keys == st.P1 \cap restr
    IN  [store |-> part_delete(st, keys, confirm), keys |-> keys, err |-> ""]

\* motif_base.py:39-42 and 56-60, Nested.delete on self = P1 & restr;
\* super().delete() is dj.Part.delete, which raises where it is defined
\* with the force argument and deletes the rows of the part where it is not
Nested_delete(st, restr, delete_from_master, confirm, refuses) ==
    LET keys == st.P1 \cap restr
    IN  IF delete_from_master
        THEN [store |-> master_delete(st, keys, confirm), keys |-> keys, err |-> ""]
        ELSE IF refuses
        THEN [store |-> st, keys |-> {}, err |-> "DataJointError"]
        ELSE [store |-> part_delete(st, keys, confirm), keys |-> keys, err |-> ""]

\* motif_base.py:44-54, Nested.delete_quick: with the default argument
\* delete_quick_from_master calls self.delete_quick(), which calls
\* delete_quick_from_master again, until Python gives up
Nested_delete_quick(st, restr, delete_from_master) ==
    LET keys == st.P1 \cap restr
    IN  IF delete_from_master
        THEN [store |-> st, keys |-> keys, err |-> "RecursionError"]
        ELSE [store |-> [st EXCEPT !.P1 = st.P1 \ keys], keys |-> keys, err |-> ""]

(***************************************************************************)
(* SpecDelete: delete and delete_quick on a restriction of the part P1,    *)
(* from every store, with the user confirming or declining.                *)
(***************************************************************************)
NoDelete == [fn |-> "", delete_from_master |-> TRUE, confirm |-> FALSE, keys |-> {}, err |-> ""]

DeleteInit ==
    /\ HashIdle
    /\ InsertIdle
    /\ ServiceIdle
    /\ GotoIdle
    /\ SchemaIdle
    /\ DeclIdle
    /\ DictIdle
    /\ store \in Stores
    /\ delcall = NoDelete

Delete ==
    \E restr \in SUBSET DeleteKeys, delete_from_master \in BOOLEAN, confirm \in BOOLEAN, refuses \in BOOLEAN :
        LET r == Nested_delete(store, restr, delete_from_master, confirm, refuses)
        IN  /\ store' = r.store
            /\ delcall' = [fn |-> "delete", delete_from_master |-> delete_from_master,
                           confirm |-> confirm, keys |-> r.keys, err |-> r.err]
            /\ UNCHANGED <<hashVars, insertVars, serviceVars, gotoVars, schemaVars, declVars, dictVars>>

DeleteQuick ==
    \E restr \in SUBSET DeleteKeys, delete_from_master \in BOOLEAN :
        LET r == Nested_delete_quick(store, restr, delete_from_master)
        IN  /\ store' = r.store
            /\ delcall' = [fn |-> "delete_quick", delete_from_master |-> delete_from_master,
                           confirm |-> TRUE, keys |-> r.keys, err |-> r.err]
            /\ UNCHANGED <<hashVars, insertVars, serviceVars, gotoVars, schemaVars, declVars, dictVars>>

DeleteNext == Delete \/ DeleteQuick

SpecDelete == DeleteInit /\ [][DeleteNext]_vars

(***************************************************************************)
(* heading.py: definitions as text.  A text is a sequence of characters;   *)
(* a run of word characters that the code never looks into is kept as one  *)
(* element (a word), every other character is an element of its own.       *)
(***************************************************************************)
\* The element of a one-element set.  Python evaluates an expression once
\* and names its value: Value({e : v \in {x}}) is e with v the value of x.
Value(S) == CHOOSE y \in S : TRUE

\* str.split(sep) for a one-character separator: the pieces, in order
RECURSIVE Split(_, _)
Split(text, sep) ==
    IF \A i \in 1..Len(text) : text[i] # sep THEN <<text>>
    ELSE LET i == CHOOSE j \in 1..Len(text) :
                      text[j] = sep /\ \A k \in 1..(j - 1) : text[k] # sep
         IN  <<SubSeq(text, 1, i - 1)>> \o Split(SubSeq(text, i + 1, Len(text)), sep)

\* heading.py:29, re.sub(' +', '', l)
WithoutSpaces(l) == SelectSeq(l, LAMBDA c : c # " ")

\* heading.py:31-36: the start positions, counted from 0, of a pattern in a line
Positions(l, pattern) ==
    Value({{i \in 0..(Len(t) - Len(pattern)) : SubSeq(t, i + 1, i + Len(pattern)) = pattern}
           : t \in {l}})

Maximum(S) == CHOOSE x \in S : \A z \in S : z <= x

Minimum(S) == Value({CHOOSE x \in T : \A z \in T : x <= z : T \in {S}})

\* heading.py:38-45: the columns of the data frame for one line
LineFlags(line) ==
    LET l == WithoutSpaces(line)
        hash == Positions(l, <<"#">>)
        divider == Positions(l, <<"-", "-", "-">>)
        arrow == Positions(l, <<"-", ">">>)
        colon == Positions(l, <<":">>)
    IN  [contains_hash |-> hash # {},
         contains_divider |-> divider # {},
         contains_arrow |-> arrow # {},
         contains_colon |-> colon # {},
         hash_pos_0 |-> 0 \in hash,
         colon_before_hash |-> IF colon # {} /\ hash # {}
                               THEN Minimum(colon) < Minimum(hash) ELSE FALSE]

\* heading.py:52: the classes in the order their queries run
LineClasses == <<"headers", "dependencies", "attributes", "dividers">>

\* heading.py:47-50: the queries
Query_of(name, x) ==
    CASE name = "headers" -> x.hash_pos_0
      [] name = "dependencies" -> ~x.hash_pos_0 /\ x.contains_arrow
      [] name = "attributes" -> (x.contains_colon /\ ~x.contains_hash) \/ x.colon_before_hash
      [] name = "dividers" -> ~x.hash_pos_0 /\ x.contains_divider

\* the elements of a set of numbers in increasing order
RECURSIVE Ascending(_)
Ascending(S) ==
    Value({IF T = {} THEN <<>> ELSE <<Minimum(T)>> \o Ascending(T \ {Minimum(T)})
           : T \in {S}})

\* heading.py:55-63: the indexes, counted from 0, that each query takes out
\* of the lines still in the data frame; what is left are the non-matches
RECURSIVE parsed_inds_of(_, _, _)
parsed_inds_of(lines, names, index) ==
    IF names = <<>> THEN [n \in {"non-matches"} |-> Ascending(index)]
    ELSE Value({[n \in {Head(names)} |-> Ascending(q)]
                    @@ parsed_inds_of(lines, Tail(names), index \ q)
                : q \in {{i \in index : Query_of(Head(names), LineFlags(lines[i + 1]))}}})

\* queries that leave the matched lines in the data frame
RECURSIVE parsed_inds_keeping(_, _, _)
parsed_inds_keeping(lines, names, index) ==
    IF names = <<>> THEN [n \in {"non-matches"} |-> Ascending(index)]
    ELSE LET q == {i \in index : Query_of(Head(names), LineFlags(lines[i + 1]))}
         IN  [n \in {Head(names)} |-> Ascending(q)]
                 @@ parsed_inds_keeping(lines, Tail(names), index)

\* a parse whose queries leave the matched lines in the data frame
parse_definition_keeping(definition) ==
    LET lines == Split(definition, "\n")
        inds == parsed_inds_keeping(lines, LineClasses, 0..(Len(lines) - 1))
    IN  [inds |-> inds,
         contents |-> [n \in DOMAIN inds |-> [k \in 1..Len(inds[n]) |-> lines[inds[n][k] + 1]]]]

\* heading.py:11-72
parse_definition(definition) ==
    Value({Value({[inds |-> inds,
                   contents |-> [n \in DOMAIN inds |->
                                    [k \in 1..Len(inds[n]) |-> lines[inds[n][k] + 1]]]]
                  : inds \in {parsed_inds_of(lines, LineClasses, 0..(Len(lines) - 1))}})
           : lines \in {Split(definition, "\n")}})

\* the classes in the order of the dictionaries parse_definition builds
AllLineClasses == LineClasses \o <<"non-matches">>

\* heading.py:84-88: content_list after the classes in names were written,
\* each content at its index
RECURSIVE content_list_of(_, _, _, _)
content_list_of(list, names, parsed_inds, parsed_contents) ==
    IF names = <<>> THEN list
    ELSE LET ii == parsed_inds[Head(names)]
             cc == parsed_contents[Head(names)]
             written == [i \in DOMAIN list |->
                            IF \E k \in 1..Len(ii) : ii[k] + 1 = i
                            THEN cc[CHOOSE k \in 1..Len(ii) :
                                       ii[k] + 1 = i /\ \A m \in (k + 1)..Len(ii) : ii[m] + 1 # i]
                            ELSE list[i]]
         IN  content_list_of(written, Tail(names), parsed_inds, parsed_contents)

RECURSIVE JoinLines(_)
JoinLines(list) == IF list = <<>> THEN <<>> ELSE Head(list) \o <<"\n">> \o JoinLines(Tail(list))

RECURSIVE SumLen(_, _)
SumLen(names, parsed_inds) ==
    IF names = <<>> THEN 0 ELSE Len(parsed_inds[Head(names)]) + SumLen(Tail(names), parsed_inds)

\* a reform that leaves the spaces out of the lines
reform_definition_unspaced(parsed_inds, parsed_contents) ==
    LET n_lines == SumLen(AllLineClasses, parsed_inds)
        unspaced == [n \in DOMAIN parsed_contents |->
                        [k \in DOMAIN parsed_contents[n] |-> WithoutSpaces(parsed_contents[n][k])]]
    IN  [err |-> "",
         definition |-> JoinLines(content_list_of([i \in 1..n_lines |-> <<>>],
                                      AllLineClasses, parsed_inds, unspaced))]

\* heading.py:75-94; an index beyond the list raises IndexError
reform_definition(parsed_inds, parsed_contents) ==
    Value({LET n_lines == SumLen(AllLineClasses, inds)
               fits == \A n \in DOMAIN inds : \A k \in 1..Len(inds[n]) : inds[n][k] < n_lines
           IN  IF ~fits THEN [err |-> "IndexError", definition |-> <<>>]
               ELSE Value({[err |-> "", definition |-> JoinLines(list)]
                           : list \in {content_list_of([i \in 1..n_lines |-> <<>>],
                                           AllLineClasses, inds, contents)}})
           : inds \in {parsed_inds}, contents \in {parsed_contents}})

(***************************************************************************)
(* base.py: the header of a definition carries the name of the class and   *)
(* its hash configuration.                                                 *)
(***************************************************************************)
\* hashed_attrs None; a list of attributes otherwise
NoneAttrs == <<NoneString>>

\* str.strip(ch)
RECURSIVE LStrip(_, _)
LStrip(s, ch) == IF s # <<>> /\ Head(s) = ch THEN LStrip(Tail(s), ch) ELSE s

RECURSIVE RStrip(_, _)
RStrip(s, ch) ==
    IF s # <<>> /\ s[Len(s)] = ch THEN RStrip(SubSeq(s, 1, Len(s) - 1), ch) ELSE s

Strip(s, ch) == Value({Value({RStrip(l, ch) : l \in {LStrip(v, ch)}}) : v \in {s}})

\* str.find(pattern): the first position, counted from 0, or -1
Find(s, pattern) ==
    Value({IF at = {} THEN -1 ELSE Minimum(at) : at \in {Positions(s, pattern)}})

\* str.replace(old, new)
RECURSIVE Replace(_, _, _)
Replace(s, old, new) ==
    IF Len(s) < Len(old) THEN s
    ELSE IF SubSeq(s, 1, Len(old)) = old
    THEN new \o Replace(SubSeq(s, Len(old) + 1, Len(s)), old, new)
    ELSE <<Head(s)>> \o Replace(Tail(s), old, new)

\* the text an f-string makes of a boolean
Formatted(value) == IF value THEN <<"True">> ELSE <<"False">>

\* base.py:265-268: the keys _modify_header appends before hashed_attrs
HeaderParams == <<"hash_name", "hash_group", "hash_table_name", "hash_part_table_names">>

\* base.py:265-268; kwargs holds every value as the text its f-string gives
RECURSIVE HashInfo(_, _)
HashInfo(attrs, kwargs) ==
    IF attrs = <<>> THEN <<>>
    ELSE (IF kwargs[Head(attrs)] # NoneString
          THEN <<" ", "|", " ", Head(attrs), ":", " ">> \o kwargs[Head(attrs)] \o <<" ">>
          ELSE <<>>) \o HashInfo(Tail(attrs), kwargs)

\* base.py:272-273
RECURSIVE HashedAttrsInfo(_)
HashedAttrsInfo(hashed_attrs) ==
    IF hashed_attrs = <<>> THEN <<>>
    ELSE IF Len(hashed_attrs) > 1
    THEN Head(hashed_attrs) \o <<",", " ">> \o HashedAttrsInfo(Tail(hashed_attrs))
    ELSE Head(hashed_attrs) \o <<" ">>

\* base.py:276-278: header.find(n) is 0, which is false, for an n at the
\* start of the header, and the header is then left as it is
ReplaceUnlessFirst(header, n) ==
    IF Find(header, n) # 0 THEN Replace(header, n, <<"|">>) ELSE header

\* base.py:250-278: the header the class gets, from the first header line of
\* its definition (headers, possibly empty)
modified_header(headers, class_name, kwargs) ==
    LET header == IF Len(headers) >= 1
                  THEN Strip(Strip(Strip(headers[1], " "), "#"), " ")
                  ELSE <<"#">>
        named == IF kwargs.add_class_name
                 THEN <<"#", "~">> \o class_name \o <<" ", "|", " ">>
                          \o SubSeq(header, Find(header, <<"#">>) + 2, Len(header))
                 ELSE header
        info == named \o HashInfo(HeaderParams, kwargs)
        full == IF kwargs.hashed_attrs # NoneAttrs
                THEN info \o <<" ", "|", " ", "hashed_attrs", ":", " ">>
                          \o HashedAttrsInfo(kwargs.hashed_attrs)
                ELSE info
    IN  Value({ReplaceUnlessFirst(c, <<"|", " ", " ", "|">>)
               : c \in {Value({ReplaceUnlessFirst(b, <<"|", " ", "|">>)
                               : b \in {Value({ReplaceUnlessFirst(a, <<"|", "|">>)
                                               : a \in {full}})}})}})

\* indexes that move only when they lie after the new header
SlidInds_after(inds, header_ind) ==
    [n \in DOMAIN inds |->
        IF n = "headers" THEN inds[n] \o <<header_ind>>
        ELSE [k \in 1..Len(inds[n]) |->
                 IF inds[n][k] > header_ind THEN inds[n][k] + 1 ELSE inds[n][k]]]

\* base.py:288-294: the indexes with the new header at header_ind and
\* every other index from header_ind on moved by one
SlidInds(inds, header_ind) ==
    [n \in DOMAIN inds |->
        IF n = "headers" THEN inds[n] \o <<header_ind>>
        ELSE [k \in 1..Len(inds[n]) |->
                 IF inds[n][k] >= header_ind THEN inds[n][k] + 1 ELSE inds[n][k]]]

\* base.py:235-297, _modify_header on a class with a definition.  np.min of
\* an empty array raises ValueError.
_modify_header(definition, class_name, kwargs) ==
    Value({LET headers == p.contents["headers"]
               comment == IF Len(headers) >= 1
                          THEN Strip(Strip(Strip(headers[1], " "), "#"), " ") ELSE <<>>
               firsts == Range(p.inds["dependencies"]) \cup Range(p.inds["attributes"])
           IN  Value({IF Len(headers) >= 1
                      THEN Value({[err |-> r.err, definition |-> r.definition,
                                   comment |-> comment, header |-> header, inds |-> p.inds]
                                  : r \in {reform_definition(p.inds,
                                              [p.contents EXCEPT !["headers"][1] = header])}})
                      ELSE IF firsts = {}
                      THEN [err |-> "ValueError", definition |-> definition,
                            comment |-> comment, header |-> header, inds |-> p.inds]
                      ELSE Value({Value({[err |-> r.err, definition |-> r.definition,
                                          comment |-> comment, header |-> header,
                                          inds |-> inds]
                                         : r \in {reform_definition(inds,
                                               [p.contents EXCEPT !["headers"] = <<header>>])}})
                                  : inds \in {SlidInds(p.inds, Minimum(firsts))}})
                      : header \in {modified_header(headers, class_name, kwargs)}})
           : p \in {parse_definition(definition)}})

(***************************************************************************)
(* base.py: the validation of a class at its definition, and the decoding  *)
(* of the header of a declared table.                                      *)
(***************************************************************************)
\* validation.py:13-31: the error raised for the first two sets that meet;
\* sets is a sequence of sets
pairwise_disjoint_set_validation(sets, error) ==
    IF \E i \in 1..Len(sets) : \E j \in (i + 1)..Len(sets) : sets[i] \cap sets[j] # {}
    THEN error ELSE ""

\* only hash_name is looked at
must_be_disjoint_hash_name(c) ==
    IF c.hash_name # NoneString THEN <<{c.hash_name}>> ELSE <<>>

\* base.py:84-94: the sets that must be disjoint, hash_name first
must_be_disjoint(c) ==
    (IF c.hash_name # NoneString THEN <<{c.hash_name}>> ELSE <<>>)
        \o (IF c.hashed_attrs # NoneAttrs THEN <<Range(c.hashed_attrs)>> ELSE <<>>)

\* a header that names every setting, at its default or not
hash_info_dict_all(c) ==
    [add_class_name |-> TRUE,
     hash_name |-> c.hash_name,
     hashed_attrs |-> c.hashed_attrs,
     hash_group |-> Formatted(c.hash_group),
     hash_table_name |-> Formatted(c.hash_table_name),
     hash_part_table_names |-> Formatted(c.hash_part_table_names)]

\* base.py:99-107 with the kwargs of BaseMaster._init_validation
\* (base.py:543): what goes into the header, every value as its text
hash_info_dict(c) ==
    [add_class_name |-> TRUE,
     hash_name |-> c.hash_name,
     hashed_attrs |-> c.hashed_attrs,
     hash_group |-> IF c.hash_group THEN Formatted(TRUE) ELSE NoneString,
     hash_table_name |-> IF c.hash_table_name THEN Formatted(TRUE) ELSE NoneString,
     hash_part_table_names |-> IF ~c.hash_part_table_names THEN Formatted(FALSE)
                               ELSE NoneString]

NoHeader == [err |-> "", definition |-> <<>>, comment |-> <<>>, header |-> <<>>]

\* base.py:52-109, _init_validation of a class c
_init_validation(c) ==
    IF c.enable_hashing /\ (c.hash_name = NoneString \/ c.hashed_attrs = NoneAttrs)
    THEN [NoHeader EXCEPT !.err = "NotImplementedError", !.definition = c.definition]
    ELSE IF pairwise_disjoint_set_validation(must_be_disjoint(c), "NotImplementedError") # ""
    THEN [NoHeader EXCEPT !.err = "NotImplementedError", !.definition = c.definition]
    ELSE Value({[err |-> r.err, definition |-> r.definition, comment |-> r.comment,
                 header |-> r.header]
                : r \in {_modify_header(c.definition, c.class_name, hash_info_dict(c))}})

\* the characters that \w does not match
Punctuation == {"#", "~", "|", ":", ",", " ", "-", ">", ".", "\n"}

\* the length of the run of word characters a text starts with
WordRun(s) ==
    Value({IF \A i \in 1..Len(t) : t[i] \notin Punctuation THEN Len(t)
           ELSE (CHOOSE i \in 1..Len(t) :
                     t[i] \in Punctuation /\ \A k \in 1..(i - 1) : t[k] \notin Punctuation) - 1
           : t \in {s}})

\* re.findall('\w+', s): the words of a text, each a run of word characters
RECURSIVE Words(_)
Words(s) ==
    Value({IF t = <<>> THEN <<>>
           ELSE IF Head(t) \in Punctuation THEN Words(Tail(t))
           ELSE <<SubSeq(t, 1, WordRun(t))>> \o Words(SubSeq(t, WordRun(t) + 1, Len(t)))
           : t \in {s}})

\* re.findall('~(.*?)\|', header): what stands between a '~' and the next '|'
RECURSIVE class_name_parse(_)
class_name_parse(header) ==
    Value({IF Find(h, <<"~">>) = -1 THEN <<>>
           ELSE Value({IF Find(rest, <<"|">>) = -1 THEN <<>>
                       ELSE <<SubSeq(rest, 1, Find(rest, <<"|">>))>>
                                \o class_name_parse(SubSeq(rest, Find(rest, <<"|">>) + 2,
                                                           Len(rest)))
                       : rest \in {SubSeq(h, Find(h, <<"~">>) + 2, Len(h))}})
           : h \in {header}})

\* base.py:331: the keys parse_hash_info_from_header knows
parseable == {"hash_name", "hashed_attrs", "hash_group", "hash_table_name", "hash_part_table_names"}

\* base.py:328-346 for one piece of the header; st is the class and the
\* header so far.  An IndexError for a key without a value is caught and
\* logged.
parse_match(st, match) ==
    Value({LET attr == result[1][1]
               removed == [s EXCEPT !.header = Replace(s.header, match, <<>>)]
               named == IF attr = "hash_name" THEN [removed EXCEPT !.hash_name = result[2]]
                        ELSE IF attr = "hashed_attrs"
                        THEN [removed EXCEPT !.hashed_attrs = Tail(result)]
                        ELSE s
           IN  IF result = <<>> THEN s
               ELSE IF Len(result[1]) # 1 \/ attr \notin parseable THEN s
               ELSE IF Len(result) < 2
               THEN (IF attr = "hashed_attrs" THEN [removed EXCEPT !.hashed_attrs = <<>>]
                     ELSE s)
               ELSE IF result[2] \in {<<"True">>, <<"False">>}
               THEN Value({[n EXCEPT ![attr] = result[2],
                                     !.header = Replace(n.header, match, <<>>)]
                           : n \in {named}})
               ELSE named
           : s \in {st}, result \in {Words(match)}})

RECURSIVE parse_matches(_, _)
parse_matches(st, matches) ==
    Value({IF ms = <<>> THEN s ELSE parse_matches(parse_match(s, Head(ms)), Tail(ms))
           : s \in {st}, ms \in {matches}})

\* the class add_datajoint_plus builds from a declared table, before its
\* header is read: the defaults of base.py:33-39 and 532; a boolean is kept
\* as its name
Undecoded(class_name) ==
    [class_name |-> class_name, hash_name |-> NoneString, hashed_attrs |-> NoneAttrs,
     hash_group |-> Formatted(FALSE), hash_table_name |-> Formatted(FALSE),
     hash_part_table_names |-> Formatted(TRUE), comment |-> <<>>, err |-> ""]

\* base.py:299-350, parse_hash_info_from_header on a class c whose table has
\* the comment header.  unwrap leaves a list of several matches a list, on
\* which re.findall raises TypeError.
parse_hash_info_from_header(header, c) ==
    Value({LET names == IF parsed = <<>> THEN <<>> ELSE Words(parsed[1])
               class_name == IF parsed = <<>> THEN <<>>
                             ELSE IF Len(names) = 1 THEN names[1]
                             ELSE IF Len(names) = 2 THEN names[1] \o <<".">> \o names[2]
                             ELSE c.class_name
               stripped == IF class_name # <<>>
                           THEN Replace(h, <<"~">> \o parsed[1] \o <<"|">>, <<>>)
                           ELSE h
           IN  IF Len(parsed) > 1 THEN [c EXCEPT !.err = "TypeError"]
               ELSE Value({Value({[class_name |-> st.class_name, hash_name |-> st.hash_name,
                                   hashed_attrs |-> st.hashed_attrs,
                                   hash_group |-> st.hash_group,
                                   hash_table_name |-> st.hash_table_name,
                                   hash_part_table_names |-> st.hash_part_table_names,
                                   comment |-> Strip(Strip(Strip(st.header, " "), "|"), " "),
                                   err |-> ""]
                                  : st \in {parse_matches([c EXCEPT !.class_name = class_name]
                                                              @@ [header |-> rest],
                                                          Split(rest, "|"))}})
                           : rest \in {stripped}})
           : h \in {header}, parsed \in {class_name_parse(header)}})

\* base.py:304, cls.heading.table_info['comment']: DataJoint declares the
\* table with the first line of the definition, without its '#' and the
\* spaces around it, as the comment of the table
table_comment(definition) ==
    Value({Value({IF first # <<>> /\ Head(first) = "#" THEN Strip(Tail(first), " ") ELSE <<>>
                  : first \in {Strip(Split(text, "\n")[1], " ")}})
           : text \in {Strip(Strip(definition, "\n"), " ")}})

(***************************************************************************)
(* SpecParse: every text of at most TextLen characters is parsed and put   *)
(* together again.                                                         *)
(***************************************************************************)
\* the characters parse_definition tells apart, a word, and the newline
LineCharacters == {"#", "-", ">", ":", " ", "a", "\n"}

Texts == UNION {[1..n -> LineCharacters] : n \in 0..TextLen}

NotDeclared == [step |-> "", err |-> ""]

ParseInit ==
    /\ HashIdle
    /\ InsertIdle
    /\ ServiceIdle
    /\ GotoIdle
    /\ SchemaIdle
    /\ DeleteIdle
    /\ DictIdle
    /\ klass \in [definition : Texts]
    /\ declared = NotDeclared

\* reform_definition(*parse_definition(definition)[:2])
Parse ==
    /\ declared = NotDeclared
    /\ LET p == parse_definition(klass.definition)
           r == reform_definition(p.inds, p.contents)
       IN  declared' = [step |-> "parse", err |-> r.err, inds |-> p.inds,
                        contents |-> p.contents, definition |-> r.definition]
    /\ UNCHANGED <<hashVars, insertVars, serviceVars, gotoVars, schemaVars, deleteVars, dictVars, klass>>

\* the class and the hash configuration the texts are given
ParseClassName == <<"Cls">>

ParseKwargs ==
    [add_class_name |-> TRUE, hash_name |-> <<"h">>, hashed_attrs |-> << <<"x">>, <<"y">> >>,
     hash_group |-> NoneString, hash_table_name |-> NoneString,
     hash_part_table_names |-> NoneString]

\* cls._modify_header(**hash_info_dict)
ModifyHeader ==
    /\ declared = NotDeclared
    /\ LET r == _modify_header(klass.definition, ParseClassName, ParseKwargs)
       IN  declared' = [step |-> "header", err |-> r.err, inds |-> r.inds,
                        header |-> r.header, definition |-> r.definition]
    /\ UNCHANGED <<hashVars, insertVars, serviceVars, gotoVars, schemaVars, deleteVars, dictVars, klass>>

ParseNext == Parse \/ ModifyHeader

SpecParse == ParseInit /\ [][ParseNext]_vars

(***************************************************************************)
(* SpecHeader: a class is defined, which validates it and rewrites the     *)
(* header of its definition, and the header is read back from the declared *)
(* table.                                                                  *)
(***************************************************************************)
\* the comments of the header lines: none, plain ones, ones that hold a
\* key of the header, a '|', a '#', or a '~' before a '|'
HeaderComments ==
    {<<>>,
     <<"comment">>,
     <<"my", " ", "comment">>,
     <<"hash_group", " ", "True">>,
     <<"hash_name", " ", "of", " ", "x">>,
     <<"a", " ", "|", " ", "b">>,
     <<"no", " ", "#", "1">>,
     <<"~", "a", "|", "b">>}

\* the first lines of the definitions: no header, or '# ' and a comment
HeaderLines == {<<>>} \cup {<<"#", " ">> \o c : c \in HeaderComments}

\* the lines after the header: an attribute, or a line that matches nothing
BodyLines == {<<"x", " ", ":", " ", "int">>, <<"x">>}

\* a definition as it is written in a class: on one line after the other,
\* or indented after an empty first line
Laid(header, body, indented) ==
    LET indent == IF indented THEN <<" ", " ">> ELSE <<>>
        first == IF indented THEN <<"\n">> ELSE <<>>
    IN  first \o (IF header = <<>> THEN <<>> ELSE indent \o header \o <<"\n">>) \o indent \o body

HeaderDefinitions ==
    {Laid(h, b, i) : h \in HeaderLines, b \in BodyLines, i \in BOOLEAN}

\* enable_hashing, hash_name and hashed_attrs of the classes
HashChoices ==
    {<<FALSE, NoneString, NoneAttrs>>,
     <<TRUE, <<"h">>, << <<"x">> >> >>,
     <<TRUE, <<"h">>, << <<"x">>, <<"y">> >> >>,
     <<TRUE, <<"x">>, << <<"x">>, <<"y">> >> >>,
     <<TRUE, NoneString, << <<"x">> >> >>,
     <<TRUE, <<"h">>, NoneAttrs>>}

HeaderClasses ==
    {[class_name |-> n, definition |-> d, enable_hashing |-> hc[1], hash_name |-> hc[2],
      hashed_attrs |-> hc[3], hash_group |-> g, hash_table_name |-> t,
      hash_part_table_names |-> p] :
        n \in {<<"Cls">>, <<"Master", ".", "Part">>}, d \in HeaderDefinitions,
        hc \in HashChoices, g \in BOOLEAN, t \in BOOLEAN, p \in BOOLEAN}

HeaderInit ==
    /\ HashIdle
    /\ InsertIdle
    /\ ServiceIdle
    /\ GotoIdle
    /\ SchemaIdle
    /\ DeleteIdle
    /\ DictIdle
    /\ klass \in HeaderClasses
    /\ declared = NotDeclared

\* __init_subclass__ (motif_user_tables.py:31-32): cls._init_validation()
InitSubclass ==
    /\ declared = NotDeclared
    /\ LET r == _init_validation(klass)
       IN  declared' = [step |-> "init", err |-> r.err, definition |-> r.definition,
                        comment |-> r.comment, header |-> r.header]
    /\ UNCHANGED <<hashVars, insertVars, serviceVars, gotoVars, schemaVars, deleteVars, dictVars, klass>>

\* compatibility.py:40: obj.parse_hash_info_from_header() on the class of
\* the table that was declared with the definition
ParseHashInfo ==
    /\ declared.step = "init"
    /\ declared.err = ""
    /\ LET d == parse_hash_info_from_header(table_comment(declared.definition),
                                            Undecoded(klass.class_name))
       IN  declared' = [step |-> "decoded", err |-> d.err, definition |-> declared.definition,
                        comment |-> declared.comment, header |-> declared.header,
                        decoded |-> d]
    /\ UNCHANGED <<hashVars, insertVars, serviceVars, gotoVars, schemaVars, deleteVars, dictVars, klass>>

HeaderNext == InitSubclass \/ ParseHashInfo

SpecHeader == HeaderInit /\ [][HeaderNext]_vars

(***************************************************************************)
(* validation.py and base.py: what a misused class or query raises, at the *)
(* definition of the class, at its first insert, and at the resolution of  *)
(* a part.                                                                 *)
(***************************************************************************)
\* validation.py:57: the widest hash
MaxHashLen == 32

\* the decimal numerals a declared type can hold, numeral n at index n + 1
Numerals == [i \in 1..(MaxHashLen + 2) |-> ToString(i - 1)]

\* int(s) of a numeral
IntOf(s) == (CHOOSE i \in DOMAIN Numerals : Numerals[i] = s) - 1

\* a validation that takes a varchar of any width
_validate_hash_name_type_and_parse_hash_len_any(hash_type) ==
    LET at == {i \in 1..Len(hash_type) : hash_type[i] = "varchar"}
        e == SubSeq(hash_type, Maximum(at) + 1, Len(hash_type))
        hash_len_match == SelectSeq(e, LAMBDA t : t \in Range(Numerals))
    IN  IF at = {} \/ hash_len_match = <<>> THEN [err |-> "AssertionError", hash_len |-> 0]
        ELSE [err |-> "", hash_len |-> IntOf(hash_len_match[1])]

\* validation.py:34-59 on the declared type of the attribute hash_name, a
\* text whose words, numerals and punctuation marks are its elements.  The
\* attribute is in the heading, so the KeyError of line 47 does not arise.
\* rpartition splits at the last 'varchar'; re.findall takes the numerals
\* after it.
_validate_hash_name_type_and_parse_hash_len(hash_type) ==
    LET at == {i \in 1..Len(hash_type) : hash_type[i] = "varchar"}
        e == SubSeq(hash_type, Maximum(at) + 1, Len(hash_type))
        hash_len_match == SelectSeq(e, LAMBDA t : t \in Range(Numerals))
    IN  IF at = {} THEN [err |-> "AssertionError", hash_len |-> 0]
        ELSE IF hash_len_match = <<>> THEN [err |-> "AssertionError", hash_len |-> 0]
        ELSE IF ~(IntOf(hash_len_match[1]) > 0 /\ IntOf(hash_len_match[1]) <= MaxHashLen)
        THEN [err |-> "AssertionError", hash_len |-> 0]
        ELSE [err |-> "", hash_len |-> IntOf(hash_len_match[1])]

\* the attribute hash_name is not in the heading
NoAttribute == <<>>

\* base.py:546-558, BaseMaster._insert_validation, followed by
\* Base._insert_validation (base.py:122-134), on a class whose heading has
\* no attribute "index"
Master_insert_validation(c) ==
    IF c.hash_name # NoneString /\ c.hash_type = NoAttribute THEN "ValidationError"
    ELSE IF c.hash_name # NoneString
            /\ _validate_hash_name_type_and_parse_hash_len(c.hash_type).err # ""
    THEN _validate_hash_name_type_and_parse_hash_len(c.hash_type).err
    ELSE pairwise_disjoint_set_validation(must_be_disjoint(c), "AttributeError")

(***************************************************************************)
(* SpecMisuse: a class is defined and then validated for its first insert, *)
(* for every hash configuration and every type of its hash attribute; and  *)
(* one part of a master is asked for.                                      *)
(***************************************************************************)
\* a declared type: a name and its arguments
Declared(name, args) == IF args = <<>> THEN <<name>> ELSE <<name, "(">> \o args \o <<")">>

\* the types of the hash attribute: varchar(32), varchar(0), varchar(33),
\* varchar, int, char(8), decimal(5,2), enum('varchar(8)'), and no such
\* attribute
HashTypes ==
    {Declared("varchar", <<ToString(MaxHashLen)>>),
     Declared("varchar", <<"0">>),
     Declared("varchar", <<ToString(MaxHashLen + 1)>>),
     Declared("varchar", <<>>),
     Declared("int", <<>>),
     Declared("char", <<"8">>),
     Declared("decimal", <<"5", ",", "2">>),
     Declared("enum", <<"'">> \o Declared("varchar", <<"8">>) \o <<"'">>),
     NoAttribute}

\* a class with hash_name and hashed_attrs but without hashing, alike or not
MisuseChoices ==
    HashChoices \cup {<<FALSE, <<"x">>, << <<"x">> >> >>, <<FALSE, <<"h">>, << <<"x">> >> >>}

MisuseClasses ==
    {[class_name |-> <<"Cls">>,
      definition |-> Laid(<<"#", " ", "comment">>, <<"x", " ", ":", " ", "int">>, FALSE),
      enable_hashing |-> hc[1], hash_name |-> hc[2], hashed_attrs |-> hc[3],
      hash_group |-> FALSE, hash_table_name |-> FALSE, hash_part_table_names |-> TRUE,
      hash_type |-> ht] : hc \in MisuseChoices, ht \in HashTypes}

MisuseInit ==
    /\ HashIdle
    /\ ServiceIdle
    /\ GotoIdle
    /\ SchemaIdle
    /\ DeleteIdle
    /\ DictIdle
    /\ tables = Classes(TRUE, FALSE)
    /\ db \in PartsDatabases
    /\ conn = [in_transaction |-> FALSE]
    /\ ret = NoCall
    /\ klass \in MisuseClasses
    /\ declared = NotDeclared

\* the first insert into the class that was defined: cls._insert_validation()
InsertValidation ==
    /\ declared.step = "init"
    /\ declared.err = ""
    /\ declared' = [step |-> "insert", err |-> Master_insert_validation(klass)]
    /\ UNCHANGED <<hashVars, insertVars, serviceVars, gotoVars, schemaVars, deleteVars, dictVars, klass>>

\* base.py:750-768, restrict_one_part on the master and its parts
ResolvePart ==
    \E restr \in Restrictions, include_parts \in IncludeChoices,
       exclude_parts \in ExcludeChoices, filter_out_disjoint \in BOOLEAN,
       filter_out_len_zero \in BOOLEAN :
        LET one == restrict_one_part(db, restr, include_parts, exclude_parts,
                                     filter_out_disjoint, filter_out_len_zero)
            parts == restrict_parts(db, restr, include_parts, exclude_parts,
                                    filter_out_disjoint, filter_out_len_zero)
        IN  /\ declared = NotDeclared
            /\ declared' = [step |-> "restrict", err |-> one.err.type,
                            matched |-> Len(parts.value)]
            /\ UNCHANGED <<hashVars, insertVars, serviceVars, gotoVars, schemaVars,
                           deleteVars, dictVars, klass>>

MisuseNext == InitSubclass \/ InsertValidation \/ ResolvePart

SpecMisuse == MisuseInit /\ [][MisuseNext]_vars

(***************************************************************************)
(* SpecTwoTables: one batch is hashed by add_hash_to_rows of two tables    *)
(* that have the same hashed_attrs and hash_group, each its own name, kind *)
(* and table-name settings.  cls and out hold one entry per table.         *)
(***************************************************************************)
TwoTables ==
    {<<c1, c2>> \in HashClasses \X HashClasses :
        /\ c1.full_table_name = TableNames[1]
        /\ c2.full_table_name = TableNames[2]
        /\ c1.hashed_attrs = c2.hashed_attrs
        /\ c1.hash_group = c2.hash_group
        /\ c1.kind = "part" \/ ~c1.master_hash_part_table_names
        /\ c2.kind = "part" \/ ~c2.master_hash_part_table_names}

TwoTablesInit ==
    /\ cls \in TwoTables
    /\ rows \in {b \in Batches : Range(cls[1].hashed_attrs) \subseteq Range(b.columns)}
    /\ op = LastOp("init", "")
    /\ dhash = IdleDigests
    /\ out = <<IdleOut, IdleOut>>
    /\ InsertIdle
    /\ ServiceIdle
    /\ RestIdle

\* cls.add_hash_to_rows(rows) in the first table and in the second
HashInBoth ==
    /\ op.name = "init"
    /\ op' = LastOp("add_hash_to_rows", "")
    /\ out' = <<add_hash_to_rows(cls[1], rows, FALSE), add_hash_to_rows(cls[2], rows, FALSE)>>
    /\ UNCHANGED <<cls, rows, dhash, insertVars, serviceVars, restVars>>

TwoTablesNext == HashInBoth

SpecTwoTables == TwoTablesInit /\ [][TwoTablesNext]_vars

(***************************************************************************)
(* SpecHashLen: _hash_name_validation of a master and of a part, for every *)
(* declared type of the hash attribute in the table and in its master.     *)
(***************************************************************************)
\* base.py:561-566, BaseMaster._hash_name_validation: err and cls._hash_len;
\* the attribute missing from the heading is the KeyError of validation.py:47
Master_hash_name_validation(c) ==
    IF c.hash_type = NoAttribute THEN [err |-> "KeyError", hash_len |-> 0]
    ELSE _validate_hash_name_type_and_parse_hash_len(c.hash_type)

\* base.py:930-953, BasePart._hash_name_validation: err and cls._hash_len,
\* 0 for a _hash_len that stays None
Part_hash_name_validation(c) ==
    LET part == IF c.hash_type # NoAttribute
                THEN _validate_hash_name_type_and_parse_hash_len(c.hash_type)
                ELSE [err |-> "", hash_len |-> 0]
        master == IF c.master_hash_type # NoAttribute
                  THEN _validate_hash_name_type_and_parse_hash_len(c.master_hash_type)
                  ELSE [err |-> "", hash_len |-> 0]
    IN  IF part.err # "" THEN part
        ELSE IF master.err # "" THEN master
        ELSE IF part.hash_len # 0 /\ master.hash_len # 0
        THEN (IF part.hash_len = master.hash_len THEN part
              ELSE [err |-> "AssertionError", hash_len |-> 0])
        ELSE IF part.hash_len # 0 THEN part
        ELSE master

HashLenClasses ==
    {[kind |-> "master", hash_name |-> <<"h">>, hash_type |-> t, master_hash_type |-> NoAttribute]
        : t \in HashTypes}
    \cup {[kind |-> "part", hash_name |-> <<"h">>, hash_type |-> t, master_hash_type |-> m]
            : t \in HashTypes, m \in HashTypes}

HashLenInit ==
    /\ HashIdle
    /\ InsertIdle
    /\ ServiceIdle
    /\ GotoIdle
    /\ SchemaIdle
    /\ DeleteIdle
    /\ DictIdle
    /\ klass \in HashLenClasses
    /\ declared = NotDeclared

\* cls._hash_name_validation()
HashNameValidation ==
    /\ declared = NotDeclared
    /\ LET r == IF klass.kind = "master" THEN Master_hash_name_validation(klass)
                ELSE Part_hash_name_validation(klass)
       IN  declared' = [step |-> "validated", err |-> r.err, hash_len |-> r.hash_len]
    /\ UNCHANGED <<hashVars, insertVars, serviceVars, gotoVars, schemaVars, deleteVars, dictVars, klass>>

HashLenNext == HashNameValidation

SpecHashLen == HashLenInit /\ [][HashLenNext]_vars

(***************************************************************************)
(* SpecNotInParts: hashes_not_in_parts on a master whose rows and whose    *)
(* parts' rows carry their own values of a: a part row references the      *)
(* master row with the same h, and its attribute a is its own.             *)
(***************************************************************************)
DataJointError(msg) == [type |-> "DataJointError", msg |-> msg]

\* dj.U(name) & p: the distinct values of attribute name in p; datajoint
\* rejects a name (None included) that the heading of p lacks
U_and(name, p) ==
    IF name \notin Range(Heading(p.part))
    THEN [err |-> DataJointError("Attribute is not found"), value |-> {}]
    ELSE [err |-> NoError, value |-> {r[name] : r \in p.rows}]

\* base.py:833-849; c is the class of the master.  np.sum of the projections
\* is their union, and np.sum([]) is 0.0, which datajoint rejects as a
\* restriction
hashes_not_in_parts(d, c, hash_name, include_parts, exclude_parts, filter_out_len_zero) ==
    LET name == IF hash_name = "None" THEN c.hash_name ELSE hash_name
        parts == restrict_parts(d, <<>>, include_parts, exclude_parts, FALSE,
                                filter_out_len_zero)
        in_parts == [i \in 1..Len(parts.value) |-> U_and(c.hash_name, parts.value[i])]
        failed == {i \in 1..Len(in_parts) : in_parts[i].err # NoError}
    IN  IF name = "None"
        THEN [err |-> ValidationError("Table does not have \"hash_name\" defined"),
              value |-> {}]
        ELSE IF parts.err # NoError THEN [err |-> parts.err, value |-> {}]
        ELSE IF failed # {} THEN [err |-> in_parts[Minimum(failed)].err, value |-> {}]
        ELSE IF Len(in_parts) = 0
        THEN [err |-> DataJointError("Invalid restriction type"), value |-> {}]
        ELSE [err |-> NoError,
              value |-> {r \in d[Master] :
                           r[c.hash_name] \notin
                               UNION {in_parts[i].value : i \in 1..Len(in_parts)}}]

AttributeValues == 0..MaxVal

\* the rows of table t with the keys of K, each with any value of a
RowsWithKeys(t, K) ==
    {rs \in SUBSET {[c \in Range(Heading(t)) |->
                        IF c = "h" THEN HashOfValue(k) ELSE v] :
                    k \in K, v \in AttributeValues} :
        /\ \A r1, r2 \in rs : r1.h = r2.h => r1 = r2
        /\ {r.h : r \in rs} \subseteq {HashOfValue(k) : k \in K}}

NotInPartsDatabases ==
    UNION {UNION {{[t \in AllTables |->
                      IF t = Master THEN m ELSE IF t = "P1" THEN p1 ELSE p2] :
                   p1 \in RowsWithKeys("P1", {k \in KeyValues : HashOfValue(k) \in {r.h : r \in m}}),
                   p2 \in RowsWithKeys("P2", {k \in KeyValues : HashOfValue(k) \in {r.h : r \in m}})} :
           m \in RowsWithKeys(Master, K)} : K \in SUBSET KeyValues}

NotInPartsInit ==
    /\ HashIdle
    /\ RestIdle
    /\ tables \in {Classes(TRUE, FALSE), Classes(FALSE, TRUE)}
    /\ db \in NotInPartsDatabases
    /\ conn = [in_transaction |-> FALSE]
    /\ ret = NoCall
    /\ res = Query("", <<>>, "None", NoParts, NoParts, FALSE, FALSE,
                   [err |-> NoError, value |-> {}])
    /\ log = {}
    /\ logcall = <<>>

\* cls.hashes_not_in_parts(hash_name=..., include_parts=..., ...)
HashesNotInParts ==
    \E hash_name \in {"None", "h", "a"}, include_parts \in IncludeChoices,
       exclude_parts \in ExcludeChoices, filter_out_len_zero \in BOOLEAN :
        /\ res' = Query("hashes_not_in_parts", <<>>, hash_name, include_parts,
                        exclude_parts, FALSE, filter_out_len_zero,
                        hashes_not_in_parts(db, tables[Master], hash_name, include_parts,
                                            exclude_parts, filter_out_len_zero))
        /\ UNCHANGED <<hashVars, insertVars, log, logcall, restVars>>

NotInPartsNext == HashesNotInParts

SpecNotInParts == NotInPartsInit /\ [][NotInPartsNext]_vars

(***************************************************************************)
(* SpecEncode: _modify_header on a definition, with and without the name   *)
(* of the class, and once more on the definition it wrote.                 *)
(***************************************************************************)
\* hash_name, hashed_attrs and hash_group of the keyword arguments
EncodeChoices ==
    {<<NoneString, NoneAttrs, NoneString>>,
     <<<<"h">>, NoneAttrs, NoneString>>,
     <<<<"h">>, << <<"x">> >>, NoneString>>,
     <<NoneString, NoneAttrs, Formatted(TRUE)>>}

EncodeKwargs ==
    {[add_class_name |-> n, hash_name |-> hc[1], hashed_attrs |-> hc[2],
      hash_group |-> hc[3], hash_table_name |-> NoneString,
      hash_part_table_names |-> NoneString] : n \in BOOLEAN, hc \in EncodeChoices}

EncodeDefinitions ==
    {Laid(h, b, i) : h \in {<<>>, <<"#">>, <<"#", " ", "comment">>, <<"#", " ", "a", " ", "|", " ", "b">>,
                            <<"#", "|", "|", " ", "b">>},
                     b \in BodyLines, i \in BOOLEAN}

EncodeInit ==
    /\ HashIdle
    /\ InsertIdle
    /\ ServiceIdle
    /\ GotoIdle
    /\ SchemaIdle
    /\ DeleteIdle
    /\ DictIdle
    /\ klass \in [class_name : {<<"Cls">>}, definition : EncodeDefinitions, kwargs : EncodeKwargs]
    /\ declared = NotDeclared

\* cls._modify_header(add_class_name=..., **kwargs)
Encode ==
    /\ declared = NotDeclared
    /\ LET r == _modify_header(klass.definition, klass.class_name, klass.kwargs)
       IN  declared' = [step |-> "encoded", err |-> r.err, inds |-> r.inds,
                        header |-> r.header, definition |-> r.definition]
    /\ UNCHANGED <<hashVars, insertVars, serviceVars, gotoVars, schemaVars, deleteVars, dictVars, klass>>

\* cls._modify_header(add_class_name=..., **kwargs) a second time: the
\* definition of the class is the one the first call set (base.py:297)
EncodeAgain ==
    /\ declared.step = "encoded"
    /\ declared.err = ""
    /\ LET r == _modify_header(declared.definition, klass.class_name, klass.kwargs)
       IN  declared' = [step |-> "again", err |-> r.err, inds |-> r.inds,
                        header |-> r.header, definition |-> r.definition,
                        once |-> declared.definition]
    /\ UNCHANGED <<hashVars, insertVars, serviceVars, gotoVars, schemaVars, deleteVars, dictVars, klass>>

EncodeNext == Encode \/ EncodeAgain

SpecEncode == EncodeInit /\ [][EncodeNext]_vars

(***************************************************************************)
(* utils.py: safedict.  A dict is the set of its items <<key, value>>; a   *)
(* mapping passed by position is the sequence of its items in the order of *)
(* its keys, keyword arguments are a set of items.                         *)
(***************************************************************************)
KeysOf(items) == {i[1] : i \in items}

\* dict.update: the items of new replace those with the same keys
Updated(items, new) == {i \in items : i[1] \notin KeysOf(new)} \cup new

\* utils.py:314-324, _key_in_dict on positional mappings args and keyword
\* arguments kwargs: of a mapping only list(key.keys())[0] is looked up,
\* and an empty mapping has no such key
_key_in_dict(self, args, kwargs) ==
    IF \E n \in 1..Len(args) : args[n] = <<>> THEN [err |-> "IndexError", in_dict |-> FALSE]
    ELSE [err |-> "",
          in_dict |-> \/ \E n \in 1..Len(args) : args[n][1][1] \in KeysOf(self.items)
                      \/ KeysOf(kwargs) \cap KeysOf(self.items) # {}]

\* utils.py:326-330, safedict.update(*args, **kwargs) with at most one
\* positional mapping
safedict_update(self, args, kwargs) ==
    LET checked == _key_in_dict(self, args, kwargs)
        mapped == IF args = <<>> THEN self.items ELSE Updated(self.items, Range(args[1]))
    IN  IF checked.err # "" THEN [self |-> self, err |-> checked.err]
        ELSE IF checked.in_dict /\ ~self.overwrite THEN [self |-> self, err |-> "OverwriteError"]
        ELSE [self |-> [self EXCEPT !.items = Updated(mapped, kwargs)], err |-> ""]

\* utils.py:332-336, safedict.__setitem__(key, value) with a key that is
\* not a dict
safedict_setitem(self, key, value) ==
    IF key \in KeysOf(self.items) /\ ~self.overwrite THEN [self |-> self, err |-> "OverwriteError"]
    ELSE [self |-> [self EXCEPT !.items = Updated(self.items, {<<key, value>>})], err |-> ""]

(***************************************************************************)
(* SpecSafedict: a safedict with any items is updated, by position and by  *)
(* keyword, and assigned to.                                               *)
(***************************************************************************)
DictKeys == {"a", "b"}

DictValues == 0..MaxVal

\* the dicts over the keys: at most one item for a key
Dicts == {d \in SUBSET (DictKeys \X DictValues) : \A i, j \in d : i[1] = j[1] => i = j}

\* the mappings in the order of their keys
Mappings ==
    {m \in UNION {[1..n -> DictKeys \X DictValues] : n \in 0..Cardinality(DictKeys)} :
        \A i, j \in 1..Len(m) : m[i][1] = m[j][1] => i = j}

SafedictInit ==
    /\ HashIdle
    /\ InsertIdle
    /\ ServiceIdle
    /\ GotoIdle
    /\ SchemaIdle
    /\ DeleteIdle
    /\ DeclIdle
    /\ inputs \in [overwrite : BOOLEAN, items : Dicts]
    /\ dictcall = [fn |-> "", keys |-> {}, err |-> ""]

\* inputs.update(mapping, **kwargs) and inputs.update(**kwargs)
Update ==
    \E args \in {<<>>} \cup {<<m>> : m \in Mappings}, kwargs \in Dicts :
        LET r == safedict_update(inputs, args, kwargs)
        IN  /\ inputs' = r.self
            /\ dictcall' = [fn |-> "update",
                            keys |-> KeysOf(kwargs) \cup
                                     (IF args = <<>> THEN {} ELSE KeysOf(Range(args[1]))),
                            err |-> r.err]
            /\ UNCHANGED <<hashVars, insertVars, serviceVars, gotoVars, schemaVars,
                           deleteVars, declVars>>

\* inputs[key] = value
SetItem ==
    \E key \in DictKeys, value \in DictValues :
        LET r == safedict_setitem(inputs, key, value)
        IN  /\ inputs' = r.self
            /\ dictcall' = [fn |-> "__setitem__", keys |-> {key}, err |-> r.err]
            /\ UNCHANGED <<hashVars, insertVars, serviceVars, gotoVars, schemaVars,
                           deleteVars, declVars>>

SafedictNext == Update \/ SetItem

SpecSafedict == SafedictInit /\ [][SafedictNext]_vars

\* the hash add_hash_to_rows assigned to row i
AssignedHash(o, i) == o.rows.data[i][cls.hash_name]

\* C2: for any row set R, any permutation of its rows and any permutation of
\* its columns, generate_hash returns the same digest as for R, without and
\* with add_constant_columns: no permutation step changes either digest.
PermutationInvariance ==
    [][op'.name \in {"permute_rows", "permute_columns"} => dhash' = dhash]_vars

\* a batch whose rows and columns are both out of canonical order, hashed
\* after a permutation
PermutationWitness ==
    /\ op.name \in {"permute_rows", "permute_columns"}
    /\ rows.columns # sort_index(rows).columns
    /\ rows.data # SortSeq(rows.data,
                           LAMBDA r1, r2 : RowLess(sort_index(rows).columns, r1, r2))
    /\ dhash.plain # dhash.with_constants

\* C3: for every table configuration, changing the value of a hashed_attrs
\* column in a row changes the hash add_hash_to_rows assigns to that row.
HashSensitivity ==
    [][(/\ op'.name = "set_value"
        /\ op'.col \in Range(cls.hashed_attrs)
        /\ out.err = ""
        /\ out'.err = "")
       => \A i \in 1..Len(rows.data) :
             rows'.data[i] # rows.data[i] => AssignedHash(out', i) # AssignedHash(out, i)
      ]_vars

\* C4: two batches that agree on every hashed_attrs column and differ only
\* in a column outside hashed_attrs receive identical hashes, row by row,
\* for hash_group on and off.
NonHashedInsensitivity ==
    [][(/\ op'.name = "set_value"
        /\ op'.col \notin Range(cls.hashed_attrs)
        /\ out.err = ""
        /\ out'.err = "")
       => \A i \in 1..Len(rows.data) : AssignedHash(out', i) = AssignedHash(out, i)
      ]_vars

\* a two-row batch hashed as a group after a cell outside hashed_attrs changed
NonHashedWitness ==
    /\ op.name = "set_value"
    /\ op.col \notin Range(cls.hashed_attrs)
    /\ out.err = ""
    /\ cls.hash_group
    /\ Len(rows.data) = 2
    /\ cls.hash_name \in Range(out.rows.columns)

\* an insert with overwrite_rows=False whose incoming rows already have the
\* hash column (hashing enabled and not skipped) or a constant_attrs key
GuardedInsert(r) ==
    /\ r.call \in {"BaseMaster.insert", "BasePart.insert"}
    /\ ~r.overwrite_rows
    /\ r.hash_in_rows \/ r.constant_in_rows

CascadeAtomicity ==
    [][(ret'.call # "" /\ ret'.cascade /\ ~ret'.in_transaction /\ ret'.err # "")
          => db' = db]_vars

\* a master-driven cascade outside a transaction that inserted into the
\* master and into P1, failed at P2 and was cancelled
CascadeAtomicityWitness ==
    /\ ret.call = "BaseMaster.insert" /\ ret.cascade /\ ~ret.in_transaction
    /\ ret.err # ""
    /\ ret.calls = << <<"start_transaction", "">>, <<"insert", Master>>,
                      <<"insert", "P1">>, <<"insert", "P2">>,
                      <<"cancel_transaction", "">> >>

\* the engine inserts a cascading insert is to make, in order
ExpectedInserts(r) ==
    IF r.call = "BaseMaster.insert"
    THEN << <<"insert", Master>> >> \o [i \in 1..Len(r.parts) |-> <<"insert", r.parts[i]>>]
    ELSE << <<"insert", Master>>, <<"insert", r.table>> >>

IsPrefix(p, q) == Len(p) <= Len(q) /\ SubSeq(q, 1, Len(p)) = p

\* C6: the engine calls of one cascading insert that got past the
\* preparation of its rows are: start_transaction first if and only if the
\* connection was not in a transaction (and nowhere else), then the master
\* insert, then the part inserts in the order given (all of them when the
\* call succeeds, a prefix up to the failing one otherwise), then the end of
\* the transaction if and only if the call opened it.
CascadeSequence ==
    (ret.cascade /\ ret.calls # <<>>) =>
        LET opened == ~ret.in_transaction
            n == Len(ret.calls)
            inserts == IF opened THEN SubSeq(ret.calls, 2, n - 1) ELSE ret.calls
        IN  /\ opened => /\ n >= 2
                         /\ ret.calls[1] = <<"start_transaction", "">>
                         /\ ret.calls[n] = <<IF ret.err = "" THEN "commit_transaction"
                                             ELSE "cancel_transaction", "">>
            /\ IsPrefix(inserts, ExpectedInserts(ret))
            /\ ret.err = "" => inserts = ExpectedInserts(ret)
            /\ ret.left_in_transaction = ret.in_transaction

\* a successful master-driven cascade into P2 then P1, outside a transaction
CascadeSequenceWitness ==
    /\ ret.call = "BaseMaster.insert" /\ ret.parts = <<"P2", "P1">>
    /\ ~ret.in_transaction /\ ret.err = ""
    /\ Len(ret.calls) = 5

\* the parts a query is about: include_parts (all parts by default) less
\* exclude_parts
Candidates(r) ==
    {t \in IF r.include_parts.given THEN Range(r.include_parts.parts) ELSE Range(PartNames) :
        t \notin Range(r.exclude_parts.parts)}

\* the rows of part t that agree with the restriction on every attribute of
\* the restriction that t has
Matching(t, restr) ==
    {r \in db[t] : \A i \in 1..Len(restr) :
        restr[i][1] \in Range(Heading(t)) => r[restr[i][1]] = restr[i][2]}

\* the parts that survive the restriction and the filters of a query
Survivors(r) ==
    {t \in Candidates(r) :
        /\ r.filter_out_disjoint => Range(Heading(t)) \cap Columns(r.restr) # {}
        /\ r.filter_out_len_zero => Matching(t, r.restr) # {}
        /\ r.query = "restrict_one_part_with_hash"
              => HashName(r.hash_name) \in Range(Heading(t))}

NoneSurvives ==
    {ValidationError("part_restr can not restrict any part tables."),
     ValidationError("Hash not found in any part tables.")}

SeveralSurvive ==
    {ValidationError("part_restr can restrict multiple part tables."),
     ValidationError("Hash found in multiple part tables.")}

\* C7: restrict_one_part and restrict_one_part_with_hash return the single
\* part, restricted, when exactly one part survives the restriction and the
\* filters, raise one error when none survives and another error when two
\* or more survive.
OnePartContract ==
    (/\ res.query \in {"restrict_one_part", "restrict_one_part_with_hash"}
     /\ res.query = "restrict_one_part_with_hash" => HashName(res.hash_name) # "None")
    => LET S == Survivors(res)
       IN  /\ Cardinality(S) = 1 =>
                 /\ res.err = NoError
                 /\ \E t \in S : res.value = [part |-> t, rows |-> Matching(t, res.restr)]
           /\ Cardinality(S) = 0 => res.err \in NoneSurvives
           /\ Cardinality(S) >= 2 => res.err \in SeveralSurvive
           /\ NoneSurvives \cap SeveralSurvive = {}

\* restrict_one_part returned the one of two parts that the filters left
OnePartWitness ==
    /\ res.query = "restrict_one_part"
    /\ res.err = NoError
    /\ Cardinality(Candidates(res)) = 2
    /\ Cardinality(Survivors(res)) = 1
    /\ res.value.rows # {}

\* restrict_parts_with_hash called with hash alone
DefaultArguments(r) ==
    /\ r.query = "restrict_parts_with_hash"
    /\ r.hash_name = "None" /\ tables[Master].hash_name # "None"
    /\ ~r.include_parts.given /\ ~r.exclude_parts.given
    /\ ~r.filter_out_len_zero

\* C8 as stated: restrict_parts_with_hash(hash) with its default arguments
\* returns exactly the parts whose heading contains the hash attribute and
\* which hold at least one row with that hash value.
WithHashReturnsMatchingParts ==
    DefaultArguments(res) =>
        {res.value[i].part : i \in 1..Len(res.value)} =
            {t \in Range(PartNames) :
                /\ HashName(res.hash_name) \in Range(Heading(t))
                /\ Matching(t, res.restr) # {}}

\* C8 amended: restrict_parts_with_hash returns, each once and restricted to
\* the rows with the hash value, exactly the parts asked about whose heading
\* contains the hash attribute; a part without a matching row is left out
\* only when filter_out_len_zero=True, which is not the default.
WithHashReturnsPartsWithAttribute ==
    (res.query = "restrict_parts_with_hash" /\ HashName(res.hash_name) # "None") =>
        LET expected == {t \in Candidates(res) :
                            /\ HashName(res.hash_name) \in Range(Heading(t))
                            /\ res.filter_out_len_zero => Matching(t, res.restr) # {}}
        IN  /\ res.err = NoError
            /\ Len(res.value) = Cardinality(expected)
            /\ {res.value[i] : i \in 1..Len(res.value)} =
                   {[part |-> t, rows |-> Matching(t, res.restr)] : t \in expected}

\* restricting by attribute a with the defaults returned P1, which has a
\* but no matching row, and not P2, which holds rows but has no a
WithHashWitness ==
    /\ res.query = "restrict_parts_with_hash"
    /\ res.hash_name = "a"
    /\ ~res.include_parts.given /\ ~res.exclude_parts.given /\ ~res.filter_out_len_zero
    /\ res.value = << [part |-> "P1", rows |-> {}] >>
    /\ db["P1"] # {} /\ db["P2"] # {}

RowsOf(lg, n) == {r \in lg : r.full_table_name = n}

\* an add for table n: its name, with no table_id or with the derived one
AddFor(c, n) ==
    /\ c.action = "add"
    /\ c.full_table_name = n
    /\ c.table_id \in {NoneId, generate_table_id(n)}

\* a delete for table n: by its table_id, by its name, or by both
DeleteFor(c, n) ==
    /\ c.action = "delete"
    /\ \/ c.table_id = generate_table_id(n) /\ c.full_table_name \in {"None", n}
       \/ c.table_id = NoneId /\ c.full_table_name = n

\* C9: in every step of the table log no row is removed and the log holds
\* at most one row for each full_table_name; an add for a table leaves its
\* row with exists = 1 and changes nothing when the row already had
\* exists = 1; a delete for a table that has a row rewrites that row with
\* exists = 0 and changes nothing else.
LogHistory ==
    [][/\ \A r \in log : \E q \in log' :
              q.table_id = r.table_id /\ q.full_table_name = r.full_table_name
       /\ \A n \in Range(TableNames) :
              /\ Cardinality(RowsOf(log', n)) <= 1
              /\ AddFor(logcall', n) =>
                     /\ \E r \in RowsOf(log', n) : r.exists = 1
                     /\ (\E r \in RowsOf(log, n) : r.exists = 1) => log' = log
              /\ (DeleteFor(logcall', n) /\ RowsOf(log, n) # {}) =>
                     \E r \in RowsOf(log, n) :
                         log' = (log \ {r}) \cup {[r EXCEPT !.exists = 0]}]_vars

\* an add for a table left its row with exists = 1 in a log that also holds
\* the row, with exists = 0, of a table that was deleted
LogHistoryWitness ==
    /\ AddFor(logcall, TableNames[1])
    /\ \E r \in RowsOf(log, TableNames[1]) : r.exists = 1
    /\ \E r \in RowsOf(log, TableNames[2]) : r.exists = 0
    /\ Cardinality(log) = 2

\* an add whose table_id is not the one derived from its full_table_name
MismatchedAdd(c) ==
    /\ c.action = "add"
    /\ c.full_table_name # "None"
    /\ c.table_id \notin {NoneId, generate_table_id(c.full_table_name)}

\* C10: every row a step writes to the table log has
\* table_id = generate_table_id(full_table_name), and an add supplied with a
\* table_id that differs from the derived one leaves the log as it was.
TableIdDerived ==
    [][/\ \A r \in log' \ log : r.table_id = generate_table_id(r.full_table_name)
       /\ MismatchedAdd(logcall') => log' = log]_vars

\* an add with the table_id of another table was refused by a log that
\* holds rows
TableIdDerivedWitness ==
    /\ MismatchedAdd(logcall)
    /\ logcall.table_id \in {generate_table_id(n) : n \in Range(TableNames)}
    /\ logcall.err = "AssertionError"
    /\ log # {}
    /\ RowsOf(log, logcall.full_table_name) = {}

(***************************************************************************)
(* goto and the lookup in the log                                          *)
(***************************************************************************)
\* the call was made with a string for table_id and no full_table_name
ByTableId(fn) ==
    /\ found.fn = fn
    /\ gotocall.table_id # NoneString
    /\ gotocall.full_table_name = NoneString

\* the table ids of the module that start with the caller's string
PrefixMatches == {i \in ClassIds(directory) : StartsWith(i, gotocall.table_id)}

\* the table ids of the module that contain the caller's string
SubstringMatches == {i \in ClassIds(directory) : Contains(i, gotocall.table_id)}

\* the logged table ids that start with the caller's string
LoggedMatches == {r.table_id : r \in {q \in log : StartsWith(q.table_id, gotocall.table_id)}}

\* C11 as stated: goto(table_id) matches the string as a prefix of the table
\* ids, returns the table when exactly one table matches and raises when
\* zero or more than one table matches.
GotoPrefixOrRaise ==
    ByTableId("goto") =>
        IF Cardinality(PrefixMatches) = 1
        THEN found.err = "" /\ found.value \in PrefixMatches
        ELSE found.err # ""

\* C11: goto(table_id) never raises and matches the string as a substring
\* of the table ids of the module: it returns the table when exactly one
\* table matches, None when no table matches, and None or one of the matching
\* tables when several match.  The lookup in the log that precedes it
\* matches the string as a prefix of the logged table ids, never raises,
\* returns the table when exactly one logged table matches and its class is
\* in the module, and None when zero or several logged tables match.
GotoContract ==
    /\ ByTableId("goto") =>
           /\ found.err = ""
           /\ Cardinality(SubstringMatches) = 1 => found.value \in SubstringMatches
           /\ Cardinality(SubstringMatches) = 0 => found.value = NoneString
           /\ found.value \in SubstringMatches \cup {NoneString}
    /\ ByTableId("tables") =>
           /\ found.err = ""
           /\ Cardinality(LoggedMatches) # 1 => found.value = NoneString
           /\ (Cardinality(LoggedMatches) = 1 /\ LoggedMatches \subseteq ClassIds(directory))
                  => found.value \in LoggedMatches

\* goto returned None, without raising, for a string no table id contains
GotoContractWitness ==
    /\ ByTableId("goto")
    /\ SubstringMatches = {}
    /\ found.value = NoneString
    /\ found.err = ""

(***************************************************************************)
(* The reconciliation of the log at the construction of a Schema           *)
(***************************************************************************)
\* a Schema has just been constructed and nothing outside its code failed
BuiltWithoutFault == schema.built /\ schema.fault = NoFault

\* every live table has a row with exists = 1
LiveAreLogged ==
    \A n \in live : \E r \in log :
        r.full_table_name = reform_full_table_name("db", n) /\ r.exists = 1

\* every row of a table that is not live has exists = 0
GoneAreMarked ==
    \A r \in log : split_full_table_name(r.full_table_name)[2] \notin live => r.exists = 0

\* C12: after the construction of a Schema the log agrees with the live
\* tables, whatever the log and the live tables were before: every live
\* table has a row with exists = 1 and every row of a table that is not
\* live has exists = 0.
SchemaReconciled == BuiltWithoutFault => LiveAreLogged /\ GoneAreMarked

(***************************************************************************)
(* delete on a nested part                                                 *)
(***************************************************************************)
\* the rows of the parts that the step removed
RemovedPartRows == (store.P1 \ store'.P1) \cup (store.P2 \ store'.P2)

\* the step is a call of delete
DeleteStep == delcall'.fn = "delete" /\ delcall'.err = ""

\* C13: delete() on a nested part with the default argument deletes the
\* master rows that match the keys of the part rows, whose part rows go by
\* cascade, and never removes a part row whose master row stays; a part row
\* is removed while its master row stays only under delete_from_master=False.
DeleteGoesThroughMaster ==
    [][DeleteStep =>
          /\ (delcall'.delete_from_master /\ delcall'.confirm) =>
                 /\ store'.master = store.master \ delcall'.keys
                 /\ RemovedPartRows \cap store'.master = {}
                 /\ delcall'.keys \cap (store'.P1 \cup store'.P2) = {}
          /\ (RemovedPartRows \cap store'.master # {}) => ~delcall'.delete_from_master
          /\ delcall'.delete_from_master => store'.P1 \cup store'.P2 \subseteq store'.master]_vars

\* a confirmed default delete has taken the master rows of the part rows
DeleteGoesThroughMasterWitness ==
    /\ delcall.fn = "delete"
    /\ delcall.delete_from_master
    /\ delcall.confirm
    /\ delcall.keys # {}
    /\ delcall.keys \cap store.master = {}
    /\ store.master # {}

(***************************************************************************)
(* parse_definition and reform_definition                                  *)
(***************************************************************************)
TextLines == Split(klass.definition, "\n")

\* the indexes parse_definition put into a class
IndsOf(n) == Range(declared.inds[n])

\* C14: parse_definition puts every line index of the definition into
\* exactly one of headers, dependencies, attributes, dividers and
\* non-matches: the five lists are pairwise disjoint, hold no index twice,
\* together cover 0..n-1, and the content stored with an index is the line
\* at that index.
ParsePartitionsLines ==
    declared.step = "parse" =>
        /\ DOMAIN declared.inds = Range(AllLineClasses)
        /\ \A n \in DOMAIN declared.inds : \A m \in DOMAIN declared.inds :
               n # m => IndsOf(n) \cap IndsOf(m) = {}
        /\ \A n \in DOMAIN declared.inds : Cardinality(IndsOf(n)) = Len(declared.inds[n])
        /\ UNION {IndsOf(n) : n \in DOMAIN declared.inds} = 0..(Len(TextLines) - 1)
        /\ \A n \in DOMAIN declared.inds :
               /\ Len(declared.contents[n]) = Len(declared.inds[n])
               /\ \A k \in 1..Len(declared.inds[n]) :
                      declared.contents[n][k] = TextLines[declared.inds[n][k] + 1]

\* a definition of several lines was parsed, one of which answers to the
\* query of the dependencies and to that of the attributes
ParsePartitionsLinesWitness ==
    /\ declared.step = "parse"
    /\ Len(TextLines) > 1
    /\ \E i \in 1..Len(TextLines) :
           /\ Query_of("dependencies", LineFlags(TextLines[i]))
           /\ Query_of("attributes", LineFlags(TextLines[i]))
           /\ (i - 1) \in IndsOf("dependencies")

\* the lines of a text that ends with a newline
OutputLines == LET pieces == Split(declared.definition, "\n")
               IN  SubSeq(pieces, 1, Len(pieces) - 1)

\* the lines whose index, counted from 0, is not among the headers
RECURSIVE LinesBut(_, _, _)
LinesBut(lines, headers, i) ==
    IF i >= Len(lines) THEN <<>>
    ELSE (IF i \in headers THEN <<>> ELSE <<lines[i + 1]>>) \o LinesBut(lines, headers, i + 1)

\* C15: the definition reform_definition makes of a parsed text holds every
\* line of the text that is not a header, unchanged and in the order of the
\* text, whether the parse went straight to reform_definition or the header
\* was rewritten or added in between.
ReformKeepsLines ==
    (declared.step \in {"parse", "header"} /\ declared.err = "") =>
        /\ declared.definition # <<>> /\ declared.definition[Len(declared.definition)] = "\n"
        /\ LinesBut(OutputLines, Range(declared.inds["headers"]), 0)
               = LinesBut(TextLines, Range(parse_definition(klass.definition).inds["headers"]), 0)
        /\ declared.step = "parse" => OutputLines = TextLines

\* a header was added to a definition that had none, in front of an
\* attribute or a dependency that another line precedes
ReformKeepsLinesWitness ==
    /\ declared.step = "header"
    /\ declared.err = ""
    /\ parse_definition(klass.definition).inds["headers"] = <<>>
    /\ declared.inds["headers"] # <<>>
    /\ declared.inds["headers"][1] > 0
    /\ Len(OutputLines) = Len(TextLines) + 1

(***************************************************************************)
(* The header of a definition as a carrier of the hash configuration       *)
(***************************************************************************)
\* the hash configuration of the class that was defined, as the decoding
\* keeps it
Configured ==
    [hash_name |-> klass.hash_name, hashed_attrs |-> klass.hashed_attrs,
     hash_group |-> Formatted(klass.hash_group),
     hash_table_name |-> Formatted(klass.hash_table_name),
     hash_part_table_names |-> Formatted(klass.hash_part_table_names)]

\* the hash configuration read from the header
Decoded == [n \in DOMAIN Configured |-> declared.decoded[n]]

\* C16: for every hash configuration and every comment, decoding the header
\* that _modify_header produced gives the configuration back.
HeaderRoundTrip ==
    declared.step = "decoded" => declared.err = "" /\ Decoded = Configured

\* class Cls with hash_name 'h', hashed_attrs ['x', 'y'], every other
\* setting at its default and the header '# comment' has been defined
ScenarioB ==
    /\ declared.step = "init"
    /\ declared.err = ""
    /\ klass.class_name = <<"Cls">>
    /\ klass.hash_name = <<"h">>
    /\ klass.hashed_attrs = << <<"x">>, <<"y">> >>
    /\ ~klass.hash_group /\ ~klass.hash_table_name /\ klass.hash_part_table_names
    /\ \E b \in BodyLines, i \in BOOLEAN :
           klass.definition = Laid(<<"#", " ", "comment">>, b, i)

\* the keys of the header that stand in a text
KeysIn(text) == parseable \cap Range(text)

\* the keys whose value is not the default
KeysSet ==
    {k \in parseable :
        \/ k = "hash_name" /\ klass.hash_name # NoneString
        \/ k = "hashed_attrs" /\ klass.hashed_attrs # NoneAttrs
        \/ k = "hash_group" /\ klass.hash_group
        \/ k = "hash_table_name" /\ klass.hash_table_name
        \/ k = "hash_part_table_names" /\ ~klass.hash_part_table_names}

\* a class has been defined whose comment holds no key
DefinedWithPlainComment ==
    declared.step = "init" /\ declared.err = "" /\ KeysIn(declared.comment) = {}

\* the keys of a header in the order they stand in it
KeyOrder(header) == SelectSeq(header, LAMBDA c : c \in parseable)

\* C17 as stated: the header is '#~Cls | comment | hash_name: h |
\* hashed_attrs: x, y ', and keys at their default are left out.
ScenarioBHeaderSingleSpaced ==
    /\ ScenarioB =>
           declared.header = <<"#", "~", "Cls", " ", "|", " ", "comment", " ", "|", " ",
                               "hash_name", ":", " ", "h", " ", "|", " ",
                               "hashed_attrs", ":", " ", "x", ",", " ", "y", " ">>
    /\ DefinedWithPlainComment => KeysIn(declared.header) = KeysSet

\* C17: encoding the header '# comment' for class Cls with hash_name 'h' and
\* hashed_attrs ['x', 'y'] gives '#~Cls | comment | hash_name: h  |
\* hashed_attrs: x, y ', with two spaces after h and the keys in that order;
\* keys whose value is the default are left out of the header.
ScenarioBHeader ==
    /\ ScenarioB =>
           declared.header = <<"#", "~", "Cls", " ", "|", " ", "comment", " ", "|", " ",
                               "hash_name", ":", " ", "h", " ", " ", "|", " ",
                               "hashed_attrs", ":", " ", "x", ",", " ", "y", " ">>
    /\ DefinedWithPlainComment =>
           /\ KeysIn(declared.header) = KeysSet
           /\ KeyOrder(declared.header)
                  = SelectSeq(HeaderParams \o <<"hashed_attrs">>, LAMBDA k : k \in KeysSet)

\* the class of the scenario has been defined and its header starts with
\* the name of the class
ScenarioBHeaderWitness ==
    /\ ScenarioB
    /\ SubSeq(declared.header, 1, 3) = <<"#", "~", "Cls">>
    /\ KeyOrder(declared.header) = <<"hash_name", "hashed_attrs">>

\* the definition of the class has no header, dependency or attribute line
OnlyNonMatches ==
    LET p == parse_definition(klass.definition)
    IN  p.inds["headers"] = <<>> /\ p.inds["dependencies"] = <<>> /\ p.inds["attributes"] = <<>>

\* the hash configuration of the class passes the validation
ValidHashing ==
    /\ klass.enable_hashing => (klass.hash_name # NoneString /\ klass.hashed_attrs # NoneAttrs)
    /\ (klass.hash_name # NoneString /\ klass.hashed_attrs # NoneAttrs)
           => klass.hash_name \notin Range(klass.hashed_attrs)

\* C18: for a definition without a header, dependency or attribute line,
\* parsing and header encoding do not raise and the definition that results
\* has a header that starts with '#'.
NoMatchGetsHeader ==
    (declared.step = "init" /\ OnlyNonMatches /\ ValidHashing) =>
        /\ declared.err = ""
        /\ \E i \in 1..Len(Split(declared.definition, "\n")) :
               LET l == Split(declared.definition, "\n")[i]
               IN  l # <<>> /\ Head(l) = "#"


(***************************************************************************)
(* C19, C20 under SpecMisuse.                                              *)
(***************************************************************************)
\* hash_name is one of the hashed_attrs of the class
Overlapping ==
    /\ klass.hash_name # NoneString
    /\ klass.hashed_attrs # NoneAttrs
    /\ klass.hash_name \in Range(klass.hashed_attrs)

Unconfigured ==
    klass.enable_hashing /\ (klass.hash_name = NoneString \/ klass.hashed_attrs = NoneAttrs)

\* the declared type t is varchar(w)
IsVarchar(t, w) == t = Declared("varchar", <<ToString(w)>>)

\* the hash attribute is in the heading, and its declared type does not
\* hold varchar or is a varchar without a width of 1..32
BadHashType ==
    /\ klass.hash_name # NoneString
    /\ klass.hash_type # NoAttribute
    /\ \/ "varchar" \notin Range(klass.hash_type)
       \/ /\ Head(klass.hash_type) = "varchar"
          /\ \A w \in 1..MaxHashLen : ~IsVarchar(klass.hash_type, w)

\* the four misuses, each at the step that meets it
MisuseMet ==
    \/ declared.step = "init" /\ (Overlapping \/ Unconfigured)
    \/ declared.step = "insert" /\ BadHashType
    \/ declared.step = "restrict" /\ declared.matched # 1

Restricted21 == SelectColumns(rows, cls.hashed_attrs)

RowAlone(i) == DataFrame(rows.columns, <<rows.data[i]>>)

\* with hash_group every row has the digest of the whole restricted batch;
\* without it row i has the hash it would get as the only row of a batch
GroupOrPerRow ==
    out.err = "" =>
        \A i \in 1..Len(rows.data) :
            IF cls.hash_group
            THEN AssignedHash(out, i)
                     = Truncate(generate_hash(Restricted21, TableIdConstant(cls)), cls.hash_len)
            ELSE AssignedHash(out, i) = AssignedHash(add_hash_to_rows(cls, RowAlone(i), FALSE), 1)

\* C21: with hash_group every row of the batch gets the same hash, the one
\* of the whole batch restricted to hashed_attrs; without hash_group the
\* hash of a row is the hash of that row alone, and a change of another row
\* of the batch leaves it as it was.
GroupHashing ==
    /\ []GroupOrPerRow
    /\ [][(/\ op'.name = "set_value"
           /\ ~cls.hash_group
           /\ out.err = ""
           /\ out'.err = "")
          => \A i \in 1..Len(rows.data) :
                rows'.data[i] = rows.data[i] => AssignedHash(out', i) = AssignedHash(out, i)
         ]_vars

\* a batch of two rows that differ in a hashed attribute, hashed as a group
GroupHashingWitness ==
    /\ op.name = "set_value"
    /\ op.col \in Range(cls.hashed_attrs)
    /\ cls.hash_group
    /\ out.err = ""
    /\ Len(rows.data) = 2
    /\ Restricted21.data[1] # Restricted21.data[2]
    /\ AssignedHash(out, 1) = AssignedHash(out, 2)


\* base.py:365: table-name hashing is in effect in table c
TableNameHashing(c) == c.hash_table_name \/ (c.kind = "part" /\ c.master_hash_part_table_names)

\* the hash column the two tables gave the batch
HashColumn(k) == [i \in 1..Len(out[k].rows.data) |-> out[k].rows.data[i][cls[k].hash_name]]

Widths(t) == {w \in 1..MaxHashLen : IsVarchar(t, w)}

\* C23: the validation returns the width w exactly when the hash attribute
\* is declared varchar(w) with 1 <= w <= 32 and fails for every other
\* declared type or width; a part and its master that both declare the
\* attribute pass only with the same width.
HashLenExact ==
    declared.step = "validated" =>
        /\ (klass.kind = "master" /\ klass.hash_type # NoAttribute) =>
               IF Widths(klass.hash_type) # {}
               THEN declared.err = "" /\ declared.hash_len \in Widths(klass.hash_type)
               ELSE declared.err # ""
        /\ (/\ klass.kind = "part"
            /\ klass.hash_type # NoAttribute
            /\ klass.master_hash_type # NoAttribute
            /\ declared.err = "")
               => Widths(klass.hash_type) \cap Widths(klass.master_hash_type) # {}


(***************************************************************************)
(* C24 under SpecNotInParts.                                               *)
(***************************************************************************)
\* the parts the arguments of the recorded query select
SelectedParts ==
    restrict_parts(db, <<>>, res.include_parts, res.exclude_parts, FALSE,
                   res.filter_out_len_zero).value

\* the values of attribute name in the selected parts
ValuesInParts(name) ==
    UNION {IF name \in Range(Heading(SelectedParts[i].part))
           THEN {r[name] : r \in SelectedParts[i].rows} ELSE {} :
           i \in 1..Len(SelectedParts)}

\* C24: hashes_not_in_parts(hash_name=X) returns exactly the master rows
\* whose value of X occurs in none of the selected parts, X being the
\* master's own hash_name when it is not given, and raises when neither is
\* available.
NotInPartsExact ==
    res.query = "hashes_not_in_parts" =>
        IF HashName(res.hash_name) = "None"
        THEN res.err.type = "ValidationError"
        ELSE /\ res.err = NoError
             /\ res.value = {r \in db[Master] :
                               r[HashName(res.hash_name)] \notin
                                   ValuesInParts(HashName(res.hash_name))}


(***************************************************************************)
(* C25 under SpecDelete.                                                   *)
(***************************************************************************)
\* C25: delete_quick() with the default delete_from_master on a nested part
\* returns, and on return neither the part nor the master holds a row with
\* the keys of the restricted part.
QuickDeleteReturns ==
    (delcall.fn = "delete_quick" /\ delcall.delete_from_master) =>
        /\ delcall.err = ""
        /\ store.P1 \cap delcall.keys = {}
        /\ store.master \cap delcall.keys = {}


(***************************************************************************)
(* C26 under SpecLog.                                                      *)
(***************************************************************************)
\* C26: a delete action on the log with neither a table_id nor a
\* full_table_name is rejected and changes no row of the log, whatever the
\* log contains.
DeleteOfNothingRejected ==
    [][(/\ logcall'.action = "delete"
        /\ logcall'.table_id = NoneId
        /\ logcall'.full_table_name = "None")
           => (logcall'.err # "" /\ log' = log)]_vars


(***************************************************************************)
(* C27 under SpecParse.                                                    *)
(***************************************************************************)
\* the indexes, counted from 0, of the lines of the text that are taken for
\* a dependency or an attribute
FirstsOfText ==
    Range(parse_definition(klass.definition).inds["dependencies"])
        \cup Range(parse_definition(klass.definition).inds["attributes"])

HeaderlessWithFirsts ==
    /\ declared.step = "header"
    /\ parse_definition(klass.definition).inds["headers"] = <<>>
    /\ FirstsOfText # {}

\* C27: on a definition without a header line and with a dependency or an
\* attribute line, _modify_header puts the new header at the index of the
\* first dependency or attribute line, every line from that index on is one
\* further down, and every line of the text is kept, in order.
HeaderInsertedBeforeFirst ==
    HeaderlessWithFirsts =>
        /\ declared.err = ""
        /\ Len(OutputLines) = Len(TextLines) + 1
        /\ OutputLines[Minimum(FirstsOfText) + 1] = declared.header
        /\ \A i \in 0..(Len(TextLines) - 1) :
               IF i < Minimum(FirstsOfText)
               THEN OutputLines[i + 1] = TextLines[i + 1]
               ELSE OutputLines[i + 2] = TextLines[i + 1]

\* the header went in front of an attribute in the middle of the text:
\* lines before it stayed and lines after it moved
HeaderInsertedBeforeFirstWitness ==
    /\ HeaderlessWithFirsts
    /\ declared.err = ""
    /\ Minimum(FirstsOfText) > 0
    /\ Minimum(FirstsOfText) < Len(TextLines) - 1


(***************************************************************************)
(* C28 and C29 under SpecEncode.                                           *)
(***************************************************************************)
\* C28: the header line _modify_header wrote begins with '#' and
\* parse_definition takes it for a header again, whatever add_class_name
\* and the hash configuration are.
EncodedHeaderIsHeader ==
    (declared.step = "encoded" /\ declared.err = "") =>
        /\ declared.header # <<>>
        /\ Head(declared.header) = "#"
        /\ OutputLines[declared.inds["headers"][1] + 1] = declared.header
        /\ declared.inds["headers"][1]
               \in Range(parse_definition(declared.definition).inds["headers"])

\* C29: _modify_header applied to the definition it wrote, with the same
\* class name and hash configuration, writes the same definition again.
EncodeIdempotent ==
    (declared.step = "again" /\ declared.err = "") => declared.definition = declared.once


(***************************************************************************)
(* C30 under SpecSafedict.                                                 *)
(***************************************************************************)
\* C30: on a safedict with overwrite = False, an update, by position or by
\* keyword, or an item assignment that names a key the dict holds raises
\* OverwriteError and leaves the dict as it was, so that no key ever
\* changes its value.
SafedictKeepsKeys ==
    [][~inputs.overwrite =>
          /\ \A i \in inputs.items : i \in inputs'.items
          /\ (dictcall'.keys \cap KeysOf(inputs.items) # {}) =>
                 (dictcall'.err = "OverwriteError" /\ inputs' = inputs)]_vars

====
